---- MODULE Spec2Model ----
(***************************************************************************)
(* A model of the Cosmo single-pass compiler (src/src/cparse.c).           *)
(*                                                                         *)
(* The parser is a recursive-descent / Pratt parser.  Every C function of  *)
(* cparse.c is an operator of the same name that takes the parse state    *)
(* (CParseState, with the chain of CCompilerState records it points to)   *)
(* and yields the parse state the C function leaves behind.  The state    *)
(* machine runs cosmoP_compileString: one step for its prologue, one step  *)
(* for every iteration of its top-level declaration loop, one step for    *)
(* each of its two returns.                                                *)
(*                                                                         *)
(* Conventions                                                             *)
(*  - a token is [type, name]: type is the TOKEN_* name without prefix,    *)
(*    name is the identifier (or the literal) as a number, 0 otherwise;   *)
(*  - pstate->compiler and the enclosing chain are the sequence           *)
(*    p.compilers, innermost (current) compiler last;                     *)
(*  - C arrays are sequences: locals[i] is locals[i+1] here;              *)
(*  - a chunk is a sequence of bytes: an opcode is its OP_* name, an      *)
(*    operand byte is a number 0..255, a u16 is two bytes, low first;     *)
(*  - line numbers are not modelled;                                      *)
(*  - a C function that returns a value leaves it in p.ret (and the       *)
(*    lookup of a name, where it found the name, in p.kind);              *)
(*  - a C local variable is a name bound by Only({ e : v \in {d} }),      *)
(*    which is e with v standing for the value of d;                      *)
(*  - p.undefined records that the compiler has done something the C      *)
(*    standard leaves undefined (a store outside an array, a call of a    *)
(*    NULL handler), p.noInfix the tokens whose NULL infix handler was    *)
(*    called, p.spin that it has entered a loop it never leaves;          *)
(*  - p.written is the highest index of locals[] that was written;       *)
(*  - p.declared records every declaration of a local: the depth of its   *)
(*    scope, whether that scope had the name, whether it was refused;     *)
(*  - p.log, p.resync, p.resolved and p.raised are histories: of the       *)
(*    statements compiled, of the runs of synchronize, of the names       *)
(*    resolved, and of the errors raised while the parser did not panic.  *)
(***************************************************************************)
EXTENDS Integers, Sequences, FiniteSets, TLC

VARIABLES
    source,     \* the token stream the lexer yields for the source text
    pc,         \* where cosmoP_compileString is: "idle", "compiling", "done", "aborted"
    ps,         \* CParseState parser (with CCompilerState compiler)
    stack,      \* the embedder's value stack (CState)
    freezeGC,   \* state->freezeGC, the GC freeze count
    result,     \* what cosmoP_compileString returned: "none", "function", "NULL"
    caller,     \* the embedder's stack and freeze count when it made the call
    applied,    \* what a function that is run on its own was applied to
    state       \* the globals, the heap and the error flag of the CState

vars == <<source, pc, ps, stack, freezeGC, result, caller, applied, state>>

UINT8_MAX == 255
UINT16_MAX == 65535

\* Local locals[256]; Upvalue upvalues[256];
LocalsCapacity == 256
UpvaluesCapacity == 256

\* the one element of a set of one element
Only(S) == CHOOSE r \in S : TRUE

(***************************************************************************)
(* Tokens                                                                  *)
(***************************************************************************)
Tok(t) == [type |-> t, name |-> 0]
Id(n) == [type |-> "IDENTIFIER", name |-> n]
Num(n) == [type |-> "NUMBER", name |-> n]
EofToken == Tok("EOF")
NoToken == Tok("NONE")

\* cosmoL_scanToken: the next token of the source, TOKEN_EOF once it is used up
scanToken(src, pos) == IF pos <= Len(src) THEN src[pos] ELSE EofToken

(***************************************************************************)
(* Values of the constant pool                                             *)
(***************************************************************************)
newNumber(n) == [kind |-> "number", val |-> n, fn |-> <<>>]
newString(n) == [kind |-> "string", val |-> n, fn |-> <<>>]
newFunctionValue(f) == [kind |-> "function", val |-> 0, fn |-> <<f>>]

(***************************************************************************)
(* Compiler state                                                          *)
(***************************************************************************)
NoLoop == [scope |-> -1, startBytecode |-> 0, breaks |-> <<>>]

\* cosmoO_newFunction
newFunction == [name |-> 0, args |-> 0, variadic |-> FALSE, upvals |-> 0,
                code |-> <<>>, constants |-> <<>>]

\* the name of length 0 that marks a reserved slot
EmptyName == Tok("")

ReservedLocal(depth) == [name |-> EmptyName, depth |-> depth, isCaptured |-> FALSE]

\* initCompilerState, had it left in the new function the loop of the
\* function around it
initCompilerStateInLoop(p, type) ==
    [p EXCEPT !.compilers =
        Append(@, [locals |-> <<ReservedLocal(0)>>,
                   upvalues |-> <<>>,
                   loop |-> IF p.compilers = <<>> THEN NoLoop
                            ELSE p.compilers[Len(p.compilers)].loop,
                   function |-> [newFunction EXCEPT
                                   !.name = IF type # "SCRIPT" THEN p.previous.name ELSE 0],
                   type |-> type,
                   localCount |-> 1,
                   scopeDepth |-> 0,
                   pushedValues |-> 0,
                   expectedValues |-> 0])]

initCompilerState(p, type) ==
    [p EXCEPT !.compilers =
        Append(@, [locals |-> <<ReservedLocal(0)>>,
                   upvalues |-> <<>>,
                   loop |-> NoLoop,
                   function |-> [newFunction EXCEPT
                                   !.name = IF type # "SCRIPT" THEN p.previous.name ELSE 0],
                   type |-> type,
                   localCount |-> 1,
                   scopeDepth |-> 0,
                   pushedValues |-> 0,
                   expectedValues |-> 0])]

initParseState ==
    initCompilerState(
        [pos |-> 1,
         current |-> NoToken, previous |-> NoToken,
         hadError |-> FALSE, panic |-> FALSE,
         ret |-> 0, kind |-> "",
         diagnostics |-> <<>>,
         raised |-> 0,
         undefined |-> FALSE,
         noInfix |-> {},
         declared |-> {},
         written |-> 0,
         spin |-> FALSE,
         log |-> {},
         resync |-> {},
         resolved |-> {},
         frames |-> <<>>,
         jumps |-> <<>>,
         patches |-> <<>>,
         loops |-> <<>>,
         compilers |-> <<>>],
        "SCRIPT")

\* pstate->compiler
Top(p) == Len(p.compilers)
CC(p) == p.compilers[Len(p.compilers)]

\* return v;
Return(p, v) == [p EXCEPT !.ret = v]

(***************************************************************************)
(* Front end                                                               *)
(***************************************************************************)
errorAt(p, token, msg) ==
    IF p.hadError
    THEN [p EXCEPT !.raised = IF p.panic THEN @ ELSE @ + 1]
    ELSE [p EXCEPT !.raised = IF p.panic THEN @ ELSE @ + 1,
                   !.diagnostics = Append(@, [msg |-> msg, at |-> token.type]),
                   !.hadError = TRUE,
                   !.panic = TRUE]

errorAtCurrent(p, msg) == errorAt(p, p.current, msg)

error(p, msg) == errorAt(p, p.previous, msg)

\* the assignments of advance
nextToken(p) ==
    [p EXCEPT !.previous = p.current,
              !.current = scanToken(source, p.pos),
              !.pos = p.pos + 1]

advance(p) ==
    IF scanToken(source, p.pos).type = "ERROR"
    THEN errorAtCurrent(nextToken(p), "lexer error")
    ELSE nextToken(p)

check(p, type) == p.current.type = type

consume(p, type, msg) ==
    IF p.current.type = type THEN advance(p) ELSE errorAtCurrent(p, msg)

\* match() is split in its test, check(), and its effect, advance()
match(p, type) == IF check(p, type) THEN advance(p) ELSE p

identifiersEqual(idA, idB) == idA = idB

valuePushed(p, values) ==
    [p EXCEPT !.compilers[Top(p)].pushedValues = @ + values]

valuePopped(p, values) ==
    [p EXCEPT !.compilers[Top(p)].pushedValues = @ - values]

blockFollow(token) == token.type \in {"END", "ELSE", "ELSEIF", "EOS"}

(***************************************************************************)
(* Writing to the chunk                                                    *)
(***************************************************************************)
getChunk(p) == CC(p).function

\* getChunk(pstate)->count
count(p) == Len(CC(p).function.code)

\* addConstant (cchunk.c): the index of an equal number or string already in
\* the pool, else the index of the value appended; a function object is only
\* equal to itself, so it is always appended
constantIndex(constants, val) ==
    IF \E i \in 1..Len(constants) :
            val.kind # "function" /\ constants[i].kind = val.kind /\ constants[i].val = val.val
    THEN (CHOOSE i \in 1..Len(constants) :
            /\ constants[i].kind = val.kind /\ constants[i].val = val.val
            /\ \A j \in 1..(i - 1) :
                    ~(constants[j].kind = val.kind /\ constants[j].val = val.val)) - 1
    ELSE Len(constants)

addConstant(p, val) ==
    IF constantIndex(CC(p).function.constants, val) = Len(CC(p).function.constants)
    THEN Return([p EXCEPT !.compilers[Top(p)].function.constants = Append(@, val)],
                Len(CC(p).function.constants))
    ELSE Return(p, constantIndex(CC(p).function.constants, val))

\* makeConstant, had it compared with >= and so refused the constant that
\* fills the pool
makeConstantBelowCapacity(p, val) ==
    IF constantIndex(CC(p).function.constants, val) >= UINT16_MAX
    THEN Return(error(addConstant(p, val),
                      "UInt overflow! Too many constants in one chunk!"), 0)
    ELSE addConstant(p, val)

\* safely adds constant to chunk, checking for overflow
makeConstant(p, val) ==
    IF constantIndex(CC(p).function.constants, val) > UINT16_MAX
    THEN Return(error(addConstant(p, val),
                      "UInt overflow! Too many constants in one chunk!"), 0)
    ELSE addConstant(p, val)

\* writeu8 with an opcode
writeOp(p, op) == [p EXCEPT !.compilers[Top(p)].function.code = Append(@, op)]

\* writeu8 with an operand byte
writeu8(p, i) == [p EXCEPT !.compilers[Top(p)].function.code = Append(@, i % 256)]

writeu16(p, i) ==
    [p EXCEPT !.compilers[Top(p)].function.code =
        @ \o <<(i % 65536) % 256, (i % 65536) \div 256>>]

\* writeu16(pstate, <the value the call before returned>)
writeu16Ret(p) == writeu16(p, p.ret)

writeConstant(p, val) ==
    valuePushed(writeu16Ret(makeConstant(writeOp(p, "OP_LOADCONST"), val)), 1)

\* returns getChunk(pstate)->count - 2
writeJmp(p, i) == Return(writeu16(writeOp(p, i), 65535), count(p) + 1)

writePop(p, times) == writeu8(writeOp(p, "OP_POP"), times)

writeJmpBack(p, location) ==
    writeu16(writeOp(IF (count(p) - location) + 3 > UINT16_MAX
                     THEN error(p, "UInt overflow! Too much code to jump!")
                     ELSE p,
                     "OP_JMPBACK"),
             (count(p) - location) + 3)

\* the memcpy of patchJmp: the low two bytes of jump, at index
patchBytes(p, index, jump) ==
    [p EXCEPT !.compilers[Top(p)].function.code =
        [@ EXCEPT ![index + 1] = (jump % 65536) % 256,
                  ![index + 2] = (jump % 65536) \div 256]]

\* patchJmp, had it kept the low 16 bits of any distance without a word
patchJmpUnchecked(p, index) == patchBytes(p, index, count(p) - index - 2)

\* patches offset operand at location
patchJmp(p, index) ==
    patchBytes(IF count(p) - index - 2 > UINT16_MAX
               THEN error(p, "UInt overflow! Too much code to jump!")
               ELSE p,
               index, count(p) - index - 2)

identifierConstant(p, name) == makeConstant(p, newString(name.name))

\* stores e at array index i (0-based) of the sequence arr
Store(arr, i, e) ==
    IF i + 1 <= Len(arr) THEN [arr EXCEPT ![i + 1] = e] ELSE Append(arr, e)

\* addLocal, had it compared with >= and so refused the local that fills the
\* last slot of locals[]
addLocalBelowCapacity(p, name) ==
    IF CC(p).localCount >= UINT8_MAX
    THEN error(p, "UInt overflow! Too many locals in scope!")
    ELSE [p EXCEPT !.compilers[Top(p)].locals =
                        Store(@, CC(p).localCount,
                              [name |-> name, depth |-> -1, isCaptured |-> FALSE]),
                   !.compilers[Top(p)].localCount = @ + 1,
                   !.written = IF CC(p).localCount > @ THEN CC(p).localCount ELSE @]

addLocal(p, name) ==
    IF CC(p).localCount > UINT8_MAX
    THEN error(p, "UInt overflow! Too many locals in scope!")
    ELSE [p EXCEPT !.compilers[Top(p)].locals =
                        Store(@, CC(p).localCount,
                              [name |-> name, depth |-> -1, isCaptured |-> FALSE]),
                   !.compilers[Top(p)].localCount = @ + 1,
                   !.written = IF CC(p).localCount > @ THEN CC(p).localCount ELSE @]

\* the loop of addUpvalue: the first i with upvalues[i] equal to (indx, isLocal),
\* upvals when there is none
findUpvalue(ccstate, indx, isLocal) ==
    IF \E i \in 1..ccstate.function.upvals :
            ccstate.upvalues[i] = [index |-> indx, isLocal |-> isLocal]
    THEN (CHOOSE i \in 1..ccstate.function.upvals :
            /\ ccstate.upvalues[i] = [index |-> indx, isLocal |-> isLocal]
            /\ \A j \in 1..(i - 1) :
                    ccstate.upvalues[j] # [index |-> indx, isLocal |-> isLocal]) - 1
    ELSE ccstate.function.upvals

\* addUpvalue on the compiler at `level`.  indx is a uint8_t parameter.
\* Nothing checks upvals against the capacity of upvalues[]: a store at index
\* 256 or above is outside the array.
addUpvalue(p, level, indx, isLocal) ==
    IF findUpvalue(p.compilers[level], indx % 256, isLocal) < p.compilers[level].function.upvals
    THEN Return(p, findUpvalue(p.compilers[level], indx % 256, isLocal))
    ELSE [p EXCEPT !.compilers[level].upvalues =
                        Store(@, p.compilers[level].function.upvals,
                              [index |-> indx % 256, isLocal |-> isLocal]),
                   !.compilers[level].function.upvals = @ + 1,
                   !.undefined = @ \/ p.compilers[level].function.upvals >= UpvaluesCapacity,
                   !.ret = p.compilers[level].function.upvals]

getLocal(ccstate, name) ==
    IF \E i \in 1..ccstate.localCount :
            ccstate.locals[i].depth # -1 /\ identifiersEqual(name, ccstate.locals[i].name)
    THEN (CHOOSE i \in 1..ccstate.localCount :
            /\ ccstate.locals[i].depth # -1 /\ identifiersEqual(name, ccstate.locals[i].name)
            /\ \A j \in (i + 1)..ccstate.localCount :
                    ~(ccstate.locals[j].depth # -1
                      /\ identifiersEqual(name, ccstate.locals[j].name))) - 1
    ELSE -1

\* getUpvalue on the compiler at `level` (level 1 has no enclosing compiler)
RECURSIVE getUpvalue(_, _, _)

\* the rest of getUpvalue once the enclosing compiler has been asked
chainUpvalue(p, level) ==
    IF p.ret # -1 THEN addUpvalue(p, level, p.ret, FALSE) ELSE Return(p, -1)

getUpvalue(p, level, name) ==
    IF level = 1 THEN Return(p, -1)
    ELSE IF getLocal(p.compilers[level - 1], name) # -1
    THEN addUpvalue(
            [p EXCEPT !.compilers[level - 1]
                        .locals[getLocal(p.compilers[level - 1], name) + 1].isCaptured = TRUE],
            level, getLocal(p.compilers[level - 1], name), TRUE)
    ELSE chainUpvalue(getUpvalue(p, level - 1, name), level)

markInitialized(p, local) ==
    [p EXCEPT !.compilers[Top(p)].locals[local + 1].depth = CC(p).scopeDepth]

\* the last line of alignStack, had it been written with += for =
addPushed(p, alignment) == [p EXCEPT !.compilers[Top(p)].pushedValues = @ + alignment]

\* pstate->compiler->pushedValues = alignment
setPushed(p, alignment) == [p EXCEPT !.compilers[Top(p)].pushedValues = alignment]

\* recovers stack (pops unneeded values, reports missing values)
alignStack(p, alignment) ==
    setPushed(IF CC(p).pushedValues > alignment
              THEN writePop(p, CC(p).pushedValues - alignment)
              ELSE IF CC(p).pushedValues < alignment
                   THEN error(p, "Missing expression!")
                   ELSE p,
              alignment)

(***************************************************************************)
(* Parser: expressions                                                     *)
(***************************************************************************)
PREC_NONE == 0
PREC_ASSIGNMENT == 1
PREC_CONCAT == 2
PREC_OR == 3
PREC_AND == 4
PREC_EQUALITY == 5
PREC_COMPARISON == 6
PREC_TERM == 7
PREC_FACTOR == 8
PREC_UNARY == 9
PREC_CALL == 10
PREC_PRIMARY == 11

\* ruleTable[type].prefix: the name of the prefix handler, "NULL" if none
PrefixRule(type) ==
    CASE type = "LEFT_PAREN" -> "group"
      [] type = "LEFT_BRACE" -> "object"
      [] type \in {"MINUS", "POUND", "BANG"} -> "unary"
      [] type = "MINUS_MINUS" -> "predecrement"
      [] type = "PLUS_PLUS" -> "preincrement"
      [] type = "IDENTIFIER" -> "variable"
      [] type = "STRING" -> "string"
      [] type = "NUMBER" -> "number"
      [] type \in {"NIL", "TRUE", "FALSE"} -> "literal"
      [] type = "FUNCTION" -> "anonFunction"
      [] OTHER -> "NULL"

\* ruleTable[type].infix
InfixRule(type) ==
    CASE type = "LEFT_PAREN" -> "call_"
      [] type = "LEFT_BRACKET" -> "_index"
      [] type = "DOT" -> "dot"
      [] type = "DOT_DOT" -> "concat"
      [] type \in {"MINUS", "PLUS", "SLASH", "STAR", "PERCENT", "BANG_EQUAL",
                   "EQUAL_EQUAL", "GREATER", "GREATER_EQUAL", "LESS", "LESS_EQUAL"} -> "binary"
      [] type = "AND" -> "and_"
      [] type = "OR" -> "or_"
      [] OTHER -> "NULL"

\* ruleTable[type].level
RuleLevel(type) ==
    CASE type \in {"LEFT_PAREN", "LEFT_BRACKET", "DOT"} -> PREC_CALL
      [] type = "DOT_DOT" -> PREC_CONCAT
      [] type \in {"MINUS", "MINUS_MINUS", "PLUS", "PLUS_PLUS"} -> PREC_TERM
      [] type \in {"SLASH", "STAR", "PERCENT"} -> PREC_FACTOR
      [] type \in {"BANG_EQUAL", "EQUAL_EQUAL"} -> PREC_EQUALITY
      [] type \in {"GREATER", "GREATER_EQUAL", "LESS", "LESS_EQUAL"} -> PREC_COMPARISON
      [] type = "AND" -> PREC_AND
      [] type = "OR" -> PREC_OR
      [] OTHER -> PREC_NONE

RECURSIVE parsePrecedence(_, _)
RECURSIVE expression(_, _, _)
RECURSIVE function(_, _)
RECURSIVE declaration(_)

\* the do ... while (match(pstate, TOKEN_COMMA)) loop of parseArguments
RECURSIVE parseArgumentsLoop(_, _)
parseArgumentsLoop(p, args) ==
    Only({ IF check(q, "COMMA")
           THEN parseArgumentsLoop(advance(q), args + 1)
           ELSE Return(q, args + 1)
           : q \in {expression(p, 1, TRUE)} })

parseArguments(p) ==
    Only({ Return(IF parsed.ret > UINT8_MAX
                  THEN errorAtCurrent(
                           consume(parsed, "RIGHT_PAREN", "Expected ')' to end call."),
                           "Too many arguments passed in call.")
                  ELSE consume(parsed, "RIGHT_PAREN", "Expected ')' to end call."),
                  parsed.ret)
           : parsed \in {IF ~check(p, "RIGHT_PAREN")
                         THEN parseArgumentsLoop(p, 0)
                         ELSE Return(p, 0)} })

number(p, canAssign) == writeConstant(p, newNumber(p.previous.name))

string(p, canAssign) == writeConstant(p, newString(p.previous.name))

literal(p, canAssign) ==
    valuePushed(CASE p.previous.type = "TRUE" -> writeOp(p, "OP_TRUE")
                  [] p.previous.type = "FALSE" -> writeOp(p, "OP_FALSE")
                  [] p.previous.type = "NIL" -> writeOp(p, "OP_NIL")
                  [] OTHER -> p,
                1)

\* the switch of unary on the operator type
unaryOp(p, type) ==
    CASE type = "MINUS" -> writeOp(p, "OP_NEGATE")
      [] type = "BANG" -> writeOp(p, "OP_NOT")
      [] type = "POUND" -> writeOp(p, "OP_COUNT")
      [] OTHER -> error(p, "Unexpected unary operator!")

\* parses prefix operators
unary(p, canAssign) == unaryOp(parsePrecedence(p, PREC_UNARY), p.previous.type)

\* the switch of binary on the operator type
binaryOp(p, type) ==
    CASE type = "PLUS" -> writeOp(p, "OP_ADD")
      [] type = "MINUS" -> writeOp(p, "OP_SUB")
      [] type = "STAR" -> writeOp(p, "OP_MULT")
      [] type = "SLASH" -> writeOp(p, "OP_DIV")
      [] type = "PERCENT" -> writeOp(p, "OP_MOD")
      [] type = "EQUAL_EQUAL" -> writeOp(p, "OP_EQUAL")
      [] type = "GREATER" -> writeOp(p, "OP_GREATER")
      [] type = "LESS" -> writeOp(p, "OP_LESS")
      [] type = "GREATER_EQUAL" -> writeOp(p, "OP_GREATER_EQUAL")
      [] type = "LESS_EQUAL" -> writeOp(p, "OP_LESS_EQUAL")
      [] type = "BANG_EQUAL" -> writeOp(writeOp(p, "OP_EQUAL"), "OP_NOT")
      [] OTHER -> error(p, "Unexpected operator!")

\* binary, had it parsed its right operand at the level of its operator
binaryToTheRight(p, canAssign) ==
    valuePopped(
        binaryOp(parsePrecedence(p, RuleLevel(p.previous.type)), p.previous.type), 1)

\* parses infix operators
binary(p, canAssign) ==
    valuePopped(
        binaryOp(parsePrecedence(p, RuleLevel(p.previous.type) + 1), p.previous.type), 1)

group(p, canAssign) ==
    consume(expression(p, 1, TRUE), "RIGHT_PAREN", "Expected ')'")

_etterOP(p, op, arg) ==
    IF op \in {"OP_GETGLOBAL", "OP_SETGLOBAL"}
    THEN writeu16(writeOp(p, op), arg)
    ELSE writeu8(writeOp(p, op), arg)

\* the local variable that upvalue indx of the compiler at `level` stands for,
\* found by following isLocal / index through the enclosing compilers
RECURSIVE Denotes(_, _, _)
Denotes(p, level, indx) ==
    IF level = 1 \/ indx >= p.compilers[level].function.upvals
    THEN [level |-> 0, slot |-> -1]
    ELSE IF p.compilers[level].upvalues[indx + 1].isLocal
         THEN [level |-> level - 1, slot |-> p.compilers[level].upvalues[indx + 1].index]
         ELSE Denotes(p, level - 1, p.compilers[level].upvalues[indx + 1].index)

\* the local variable that name stands for by lexical scoping, seen from the
\* compiler at `level`: the innermost function that holds such a local
RECURSIVE Lexical(_, _, _)
Lexical(p, level, name) ==
    IF level = 0 THEN [level |-> 0, slot |-> -1]
    ELSE IF getLocal(p.compilers[level], name) # -1
         THEN [level |-> level, slot |-> getLocal(p.compilers[level], name)]
         ELSE Lexical(p, level - 1, name)

\* the operand byte(s) written for arg: one byte for a local or an upvalue,
\* a u16 for a global
Operand(kind, arg) == IF kind = "GLOBAL" THEN arg % 65536 ELSE arg % 256

\* one resolution of a name, as namedVariable is about to emit it
Resolution(p, name, kind, arg) ==
    [name |-> name.name, level |-> Top(p), kind |-> kind, arg |-> arg,
     operand |-> Operand(kind, arg),
     denotes |-> CASE kind = "LOCAL" -> [level |-> Top(p), slot |-> Operand(kind, arg)]
                   [] kind = "UPVAL" -> Denotes(p, Top(p), Operand(kind, arg))
                   [] OTHER -> [level |-> 0, slot |-> -1],
     lexical |-> Lexical(p, Top(p), name),
     captured |-> kind = "UPVAL" =>
                    /\ Lexical(p, Top(p), name).level > 0
                    /\ p.compilers[Lexical(p, Top(p), name).level]
                            .locals[Lexical(p, Top(p), name).slot + 1].isCaptured,
     again |-> IF kind = "UPVAL" THEN getUpvalue(p, Top(p), name).ret ELSE arg]

\* the upvalue and global cases of the lookup
lookupOuter(p, name) ==
    IF p.ret # -1
    THEN [p EXCEPT !.kind = "UPVAL"]
    ELSE [identifierConstant(p, name) EXCEPT !.kind = "GLOBAL"]

\* the lookup that opens namedVariable (and closes increment): p.ret is arg,
\* p.kind is where the name was found (which selects opGet, opSet and inc)
lookup(p, name) ==
    IF getLocal(CC(p), name) # -1
    THEN [p EXCEPT !.ret = getLocal(CC(p), name), !.kind = "LOCAL"]
    ELSE lookupOuter(getUpvalue(p, Top(p), name), name)

\* the lookup, and its entry in the history of the names resolved
found(p, name) == [p EXCEPT !.resolved = @ \cup {Resolution(p, name, p.kind, p.ret)}]

resolveName(p, name) == found(lookup(p, name), name)

\* the INC* instruction of namedVariable and increment: opcode, biased delta,
\* then the operand as a u16 for a global and a u8 otherwise
writeInc(p, kind, delta, arg) ==
    IF kind = "GLOBAL"
    THEN writeu16(writeu8(writeOp(p, "OP_INC" \o kind), 128 + delta), arg)
    ELSE writeu8(writeu8(writeOp(p, "OP_INC" \o kind), 128 + delta), arg)

namedVariable(p, name, canAssign, canIncrement) ==
    Only({ IF canAssign /\ check(q, "EQUAL")
           THEN Only({ valuePopped(_etterOP(value, "OP_SET" \o q.kind, q.ret), 1)
                       : value \in {expression(advance(q), 1, TRUE)} })
           ELSE IF canIncrement /\ check(q, "PLUS_PLUS")
           THEN valuePushed(writeInc(advance(q), q.kind, 1, q.ret), 1)
           ELSE IF canIncrement /\ check(q, "MINUS_MINUS")
           THEN valuePushed(writeInc(advance(q), q.kind, -1, q.ret), 1)
           ELSE valuePushed(_etterOP(q, "OP_GET" \o q.kind, q.ret), 1)
           : q \in {resolveName(p, name)} })

and_(p, canAssign) ==
    Only({ patchJmp(parsePrecedence(writePop(q, 1), PREC_AND), q.ret)
           : q \in {writeJmp(p, "OP_EJMP")} })

or_(p, canAssign) ==
    Only({ Only({ patchJmp(parsePrecedence(writePop(patchJmp(w, q.ret), 1), PREC_OR), w.ret)
                  : w \in {writeJmp(q, "OP_JMP")} })
           : q \in {writeJmp(p, "OP_EJMP")} })

anonFunction(p, canAssign) == function(p, "FUNCTION")

variable(p, canAssign) == namedVariable(p, p.previous, canAssign, TRUE)

\* the do ... while (match(TOKEN_DOT_DOT)) loop of concat; p.ret is vars
RECURSIVE concatLoop(_, _, _)
concatLoop(p, type, n) ==
    Only({ IF check(q, "DOT_DOT")
           THEN concatLoop(advance(q), type, n + 1)
           ELSE Return(q, n + 1)
           : q \in {parsePrecedence(p, RuleLevel(type) + 1)} })

concat(p, canAssign) ==
    Only({ valuePopped(writeu8(writeOp(q, "OP_CONCAT"), q.ret), q.ret - 1)
           : q \in {concatLoop(p, p.previous.type, 1)} })

call_(p, canAssign) ==
    Only({ valuePushed(
               writeu8(writeu8(writeOp(valuePopped(q, (q.ret % 256) + 1), "OP_CALL"),
                               q.ret % 256),
                       CC(q).expectedValues),
               CC(q).expectedValues)
           : q \in {parseArguments(p)} })

\* the do ... while (match(TOKEN_COMMA) && !pstate->hadError) loop of object
RECURSIVE objectLoop(_, _)
objectLoop(p, entries) ==
    Only({ IF check(q, "COMMA") /\ ~advance(q).hadError
           THEN objectLoop(advance(q), entries + 1)
           ELSE Return(match(q, "COMMA"), entries + 1)
           : q \in {valuePopped(
                        expression(
                            consume(expression(p, 1, TRUE), "COLON",
                                    "Expected ':' to mark end of key and start of value!"),
                            1, TRUE),
                        2)} })

object(p, canAssign) ==
    Only({ valuePushed(writeu16(writeOp(q, "OP_NEWDICT"), q.ret), 1)
           : q \in {IF check(p, "RIGHT_BRACE")
                    THEN Return(advance(p), 0)
                    ELSE consume(objectLoop(p, 0), "RIGHT_BRACE",
                                 "Expected '}' to end object definition.")} })

\* identifierConstant(pstate, &pstate->previous)
previousConstant(p) == identifierConstant(p, p.previous)

\* the call of a method, from its arguments on; p.ret is the name constant
invoke(p) ==
    Only({ valuePushed(
               valuePopped(
                   writeu8(writeu8(writeOp(a, "OP_INVOKE"), a.ret % 256),
                           CC(a).expectedValues),
                   (a.ret % 256) + 1),
               CC(a).expectedValues)
           : a \in {parseArguments(writeu16(writeOp(p, "OP_LOADCONST"), p.ret))} })

dot(p, canAssign) ==
    Only({ IF canAssign /\ check(q, "EQUAL")
           THEN valuePopped(
                    writeOp(expression(writeu16(writeOp(advance(q), "OP_LOADCONST"), q.ret),
                                       1, TRUE),
                            "OP_SETOBJECT"),
                    2)
           ELSE IF check(q, "PLUS_PLUS")
           THEN writeu16(writeu8(writeOp(advance(q), "OP_INCOBJECT"), 128 + 1), q.ret)
           ELSE IF check(q, "MINUS_MINUS")
           THEN writeu16(writeu8(writeOp(advance(q), "OP_INCOBJECT"), 128 - 1), q.ret)
           ELSE IF check(q, "LEFT_PAREN")
           THEN invoke(advance(q))
           ELSE writeOp(writeu16(writeOp(q, "OP_LOADCONST"), q.ret), "OP_GETOBJECT")
           : q \in {previousConstant(
                        consume(p, "IDENTIFIER", "Expected property name after '.'."))} })

\* _index after the key and the ']'
indexOp(p, canAssign) ==
    IF canAssign /\ check(p, "EQUAL")
    THEN valuePopped(writeOp(expression(advance(p), 1, TRUE), "OP_NEWINDEX"), 2)
    ELSE IF check(p, "PLUS_PLUS")
    THEN writeu8(writeOp(advance(p), "OP_INCINDEX"), 128 + 1)
    ELSE IF check(p, "MINUS_MINUS")
    THEN writeu8(writeOp(advance(p), "OP_INCINDEX"), 128 - 1)
    ELSE writeOp(p, "OP_INDEX")

_index(p, canAssign) ==
    valuePopped(
        indexOp(consume(expression(p, 1, TRUE), "RIGHT_BRACKET", "Expected ']' to end index."),
                canAssign),
        1)

\* the switch (lastIndexType) inside the loop of walkIndexes
walkLast(p, lastIndexType, lastIdent) ==
    CASE lastIndexType = 0 ->
            writeOp(writeu16(writeOp(p, "OP_LOADCONST"), lastIdent), "OP_GETOBJECT")
      [] lastIndexType = 1 -> valuePopped(writeOp(p, "OP_INDEX"), 1)
      [] OTHER -> p

\* the switch (indexType) after the loop of walkIndexes
walkEnd(p, indexType, ident, val) ==
    CASE indexType = 0 ->
            valuePopped(writeu16(writeu8(writeOp(p, "OP_INCOBJECT"), 128 + val), ident), 1)
      [] indexType = 1 -> valuePopped(writeu8(writeOp(p, "OP_INCINDEX"), 128 + val), 2)
      [] OTHER -> p

\* ++test.field[1]
\* every call is one iteration of the while (true) loop, the last call the
\* exit from it
RECURSIVE walkIndexes(_, _, _, _)
walkIndexes(p, lastIndexType, lastIdent, val) ==
    IF check(p, "DOT")
    THEN Only({ walkIndexes(walkLast(c, lastIndexType, lastIdent), 0, c.ret, val)
                : c \in {previousConstant(
                             consume(advance(p), "IDENTIFIER",
                                     "Expected property name after '.'."))} })
    ELSE IF check(p, "LEFT_BRACKET")
    THEN walkIndexes(
             consume(expression(walkLast(advance(p), lastIndexType, lastIdent), 1, TRUE),
                     "RIGHT_BRACKET", "Expected ']' to end index."),
             1, lastIdent, val)
    ELSE walkEnd(p, lastIndexType, lastIdent, val)

\* walkIndexes(pstate, 0, ident, val) with the ident the call before returned
walkField(p, val) == walkIndexes(p, 0, p.ret, val)

\* the last branch of increment: the INC* instruction for a plain name
incrementName(p, val) == writeInc(p, p.kind, val, p.ret)

\* increment, had it left on the stack what the INC* instruction leaves
incrementWithoutAdd(p, val) ==
    IF check(p, "DOT")
    THEN walkField(
             previousConstant(
                 consume(namedVariable(advance(p), p.previous, FALSE, FALSE),
                         "IDENTIFIER", "Expected property name after '.'.")),
             val)
    ELSE IF check(p, "LEFT_BRACKET")
    THEN walkIndexes(
             consume(expression(namedVariable(advance(p), p.previous, FALSE, FALSE),
                                1, TRUE),
                     "RIGHT_BRACKET", "Expected ']' to end index."),
             1, 0, val)
    ELSE valuePushed(incrementName(resolveName(p, p.previous), val), 1)

increment(p, val) ==
    writeOp(
        writeConstant(
            IF check(p, "DOT")
            THEN walkField(
                     previousConstant(
                         consume(namedVariable(advance(p), p.previous, FALSE, FALSE),
                                 "IDENTIFIER", "Expected property name after '.'.")),
                     val)
            ELSE IF check(p, "LEFT_BRACKET")
            THEN walkIndexes(
                     consume(expression(namedVariable(advance(p), p.previous, FALSE, FALSE),
                                        1, TRUE),
                             "RIGHT_BRACKET", "Expected ']' to end index."),
                     1, 0, val)
            ELSE incrementName(resolveName(p, p.previous), val),
            newNumber(val)),
        "OP_ADD")

\* ++i
preincrement(p, canAssign) ==
    increment(consume(p, "IDENTIFIER", "Expected identifier after '++'"), 1)

\* --i
predecrement(p, canAssign) ==
    increment(consume(p, "IDENTIFIER", "Expected identifier after '--'"), -1)

\* prefix(pstate, canAssign) for the handler the rule table names
callPrefix(p, handler, canAssign) ==
    CASE handler = "group" -> group(p, canAssign)
      [] handler = "object" -> object(p, canAssign)
      [] handler = "unary" -> unary(p, canAssign)
      [] handler = "predecrement" -> predecrement(p, canAssign)
      [] handler = "preincrement" -> preincrement(p, canAssign)
      [] handler = "variable" -> variable(p, canAssign)
      [] handler = "string" -> string(p, canAssign)
      [] handler = "number" -> number(p, canAssign)
      [] handler = "literal" -> literal(p, canAssign)
      [] handler = "anonFunction" -> anonFunction(p, canAssign)

\* infix(pstate, canAssign); calling the NULL handler is undefined
callInfix(p, handler, canAssign) ==
    CASE handler = "call_" -> call_(p, canAssign)
      [] handler = "_index" -> _index(p, canAssign)
      [] handler = "dot" -> dot(p, canAssign)
      [] handler = "concat" -> concat(p, canAssign)
      [] handler = "binary" -> binary(p, canAssign)
      [] handler = "and_" -> and_(p, canAssign)
      [] handler = "or_" -> or_(p, canAssign)
      [] handler = "NULL" -> [p EXCEPT !.undefined = TRUE,
                                       !.noInfix = @ \cup {p.previous.type}]

\* the while loop of parsePrecedence; a call of the NULL handler ends it
RECURSIVE infixLoop(_, _, _)
infixLoop(p, prec, canAssign) ==
    IF prec <= RuleLevel(p.current.type)
    THEN IF InfixRule(p.current.type) = "NULL"
         THEN callInfix(advance(p), "NULL", canAssign)
         ELSE Only({ infixLoop(operand, prec, canAssign)
                     : operand \in {callInfix(advance(p), InfixRule(p.current.type),
                                              canAssign)} })
    ELSE p

\* the end of parsePrecedence, had it left an '=' where it is
leftAssignment(p, canAssign) == p

\* the end of parsePrecedence
invalidAssignment(p, canAssign) ==
    IF canAssign /\ check(p, "EQUAL")
    THEN error(advance(p), "Invalid assignment!")
    ELSE p

parsePrecedence(p, prec) ==
    IF PrefixRule(p.current.type) = "NULL"
    THEN advance(p)
    ELSE Only({ invalidAssignment(infixLoop(operand, prec, prec <= PREC_ASSIGNMENT),
                                  prec <= PREC_ASSIGNMENT)
                : operand \in {callPrefix(advance(p), PrefixRule(p.current.type),
                                          prec <= PREC_ASSIGNMENT)} })

(***************************************************************************)
(* Parser: declarations and statements                                     *)
(***************************************************************************)
\* the break of the loop of declareLocal: local i is initialized and belongs
\* to an enclosing scope
previousScope(ccstate, i) ==
    ccstate.locals[i].depth # -1 /\ ccstate.scopeDepth > ccstate.locals[i].depth

\* a local of the scope that is open has the name of the token: a local of
\* the depth of that scope, or one declared and not yet initialized
sameScope(ccstate, name) ==
    \E i \in 1..ccstate.localCount :
        /\ identifiersEqual(name, ccstate.locals[i].name)
        /\ ccstate.locals[i].depth \in {-1, ccstate.scopeDepth}

\* for the record: a local was declared in state p, and refused or not
logDeclared(q, p, refused) ==
    [q EXCEPT !.declared = @ \cup {[depth |-> CC(p).scopeDepth,
                                    type |-> CC(p).type,
                                    same |-> sameScope(CC(p), p.previous),
                                    refused |-> refused]}]

declareLocal(p, forceLocal) ==
    IF CC(p).scopeDepth = 0 /\ ~forceLocal THEN p
    ELSE addLocal(IF \E i \in 1..CC(p).localCount :
                        /\ identifiersEqual(p.previous, CC(p).locals[i].name)
                        /\ \A j \in 1..i : ~previousScope(CC(p), j)
                  THEN logDeclared(error(p, "There's already a local in scope with this name!"),
                                   p, TRUE)
                  ELSE logDeclared(p, p, FALSE),
                  p.previous)

\* the return of parseVariable
variableIndex(p, forceLocal) ==
    IF CC(p).scopeDepth > 0 \/ forceLocal
    THEN Return(p, CC(p).localCount - 1)
    ELSE previousConstant(p)

parseVariable(p, errorMessage, forceLocal) ==
    variableIndex(declareLocal(consume(p, "IDENTIFIER", errorMessage), forceLocal),
                  forceLocal)

defineVariable(p, global, forceLocal) ==
    IF p.hadError THEN p
    ELSE IF CC(p).scopeDepth > 0 \/ forceLocal
    THEN valuePopped(markInitialized(p, global), 1)
    ELSE valuePopped(writeu16(writeOp(p, "OP_SETGLOBAL"), global), 1)

\* defineVariable(pstate, <the value the call before returned>, forceLocal)
defineRet(p, forceLocal) == defineVariable(p, p.ret, forceLocal)

\* the while loop of _proto; p.ret is entries.  When the token is neither
\* 'end', EOF nor 'function' and no error was reported, the loop body consumes
\* nothing and the loop never ends.
RECURSIVE protoLoop(_, _)
protoLoop(p, entries) ==
    IF check(p, "END") \/ check(p, "EOF") THEN Return(advance(p), entries)
    ELSE IF p.hadError THEN Return(p, entries)
    ELSE IF check(p, "FUNCTION")
    THEN protoLoop(
             valuePopped(
                 function(
                     writeu16Ret(
                         writeOp(previousConstant(
                                     consume(advance(p), "IDENTIFIER", "Expected identifier!")),
                                 "OP_LOADCONST")),
                     "METHOD"),
                 1),
             entries + 1)
    ELSE Return([p EXCEPT !.spin = TRUE], entries)

_proto(p) ==
    Only({ Only({ defineVariable(
                      valuePushed(writeu16(writeOp(body, "OP_NEWOBJECT"), body.ret), 1),
                      var.ret, FALSE)
                  : body \in {protoLoop(var, 0)} })
           : var \in {parseVariable(p, "Expected identifer!", FALSE)} })

\* pstate->compiler->localCount--
dropLocal(p) == [p EXCEPT !.compilers[Top(p)].localCount = @ - 1]

\* the while loop of popLocals and the writePop that follows it
RECURSIVE popLocalsLoop(_, _, _)
popLocalsLoop(p, toScope, localsToPop) ==
    IF CC(p).localCount > 0 /\ CC(p).locals[CC(p).localCount].depth > toScope
    THEN IF CC(p).locals[CC(p).localCount].isCaptured
         THEN popLocalsLoop(
                  dropLocal(writeOp(IF localsToPop > 0 THEN writePop(p, localsToPop) ELSE p,
                                    "OP_CLOSE")),
                  toScope, 0)
         ELSE popLocalsLoop(dropLocal(p), toScope, localsToPop + 1)
    ELSE IF localsToPop > 0 THEN writePop(p, localsToPop) ELSE p

popLocals(p, toScope) ==
    IF p.hadError THEN p ELSE popLocalsLoop(p, toScope, 0)

beginScope(p) == [p EXCEPT !.compilers[Top(p)].scopeDepth = @ + 1]

endScope(p) ==
    popLocals([p EXCEPT !.compilers[Top(p)].scopeDepth = @ - 1], CC(p).scopeDepth - 1)

\* the condition of the while loop of block
blockGoesOn(p) == ~check(p, "END") /\ ~check(p, "EOF") /\ ~check(p, "ERROR")

\* the while loop of block
RECURSIVE blockLoop(_)
blockLoop(p) ==
    IF blockGoesOn(p) /\ ~p.spin
    THEN Only({ blockLoop(q) : q \in {declaration(p)} })
    ELSE p

\* the consume that follows the loop of block
blockEnd(p) == consume(p, "END", "'end' expected to end block.'")

\* parses expressionStatements until a TOKEN_END is consumed
block(p) == blockEnd(blockLoop(p))

\* one turn of the loop of varDeclaration after its call of expression, which
\* returned pushed: p.ret is pushed on entry, expectedValues on exit
varValue(p, expectedValues) ==
    IF expectedValues - p.ret < 0
    THEN Return(valuePopped(writePop(valuePushed(p, 1), p.ret - expectedValues),
                            p.ret - expectedValues),
                1)
    ELSE Return(valuePushed(p, 1), expectedValues - p.ret)

\* the do ... while (match(TOKEN_COMMA)) loop of varDeclaration
RECURSIVE varValuesLoop(_, _)
varValuesLoop(p, expectedValues) ==
    Only({ IF check(k, "COMMA") THEN varValuesLoop(advance(k), k.ret) ELSE k
           : k \in {varValue(expression(valuePopped(p, 1), expectedValues, FALSE),
                             expectedValues)} })

\* while (expectedValues-- > 0)
RECURSIVE padNil(_, _)
padNil(p, expectedValues) ==
    IF expectedValues > 0
    THEN padNil(writeOp(valuePushed(p, 1), "OP_NIL"), expectedValues - 1)
    ELSE p

\* padNil(pstate, <the expectedValues the loop before left>)
padNilRet(p) == padNil(p, p.ret)

RECURSIVE varDeclaration(_, _, _)
varDeclaration(p, forceLocal, expectedValues) ==
    Only({ defineVariable(
               IF check(var, "EQUAL")
               THEN padNilRet(varValuesLoop(advance(var), expectedValues + 1))
               ELSE IF check(var, "COMMA")
               THEN varDeclaration(advance(var), forceLocal, expectedValues + 1)
               ELSE valuePushed(writeOp(var, "OP_NIL"), 1),
               var.ret, forceLocal)
           : var \in {parseVariable(p, "Expected identifer!", forceLocal)} })

\* the loop of ifStatement that parses until 'end', 'else' or 'elseif'
RECURSIVE ifBody(_)
ifBody(p) ==
    IF /\ ~check(p, "END") /\ ~check(p, "ELSE") /\ ~check(p, "ELSEIF")
       /\ ~check(p, "EOF") /\ ~check(p, "ERROR") /\ ~p.spin
    THEN Only({ ifBody(q) : q \in {declaration(p)} })
    ELSE p

RECURSIVE ifStatement(_)

\* ifStatement after the scope of its first branch; jump is the jump over it
ifElse(p, jump) ==
    IF check(p, "ELSE")
    THEN Only({ Only({ patchJmp(endScope(body), e.ret)
                       : body \in {block(beginScope(patchJmp(e, jump)))} })
                : e \in {writeJmp(advance(p), "OP_JMP")} })
    ELSE IF check(p, "ELSEIF")
    THEN Only({ Only({ patchJmp(body, e.ret)
                       : body \in {ifStatement(patchJmp(e, jump))} })
                : e \in {writeJmp(advance(p), "OP_JMP")} })
    ELSE consume(patchJmp(p, jump), "END", "'end' expected to end block.")

ifStatement(p) ==
    Only({ Only({ ifElse(endScope(body), j.ret)
                  : body \in {ifBody(beginScope(valuePopped(j, 1)))} })
           : j \in {writeJmp(consume(expression(p, 1, TRUE), "THEN",
                                     "Expect 'then' after expression."),
                             "OP_PEJMP")} })

\* startLoop, had it kept the start of the loop around it
startLoopStale(p) ==
    [p EXCEPT !.compilers[Top(p)].loop =
        [scope |-> CC(p).scopeDepth,
         startBytecode |-> IF CC(p).loop.scope = -1 THEN count(p)
                           ELSE CC(p).loop.startBytecode,
         breaks |-> <<>>]]

startLoop(p) ==
    [p EXCEPT !.compilers[Top(p)].loop =
        [scope |-> CC(p).scopeDepth, startBytecode |-> count(p), breaks |-> <<>>]]

\* for the record: the jump whose operand is at index has been patched
logPatch(p, index) ==
    [p EXCEPT !.patches = Append(@, [pos |-> p.pos, level |-> Top(p), index |-> index,
                                     operand |-> CC(p).function.code[index + 1]
                                                 + 256 * CC(p).function.code[index + 2]])]

\* endLoop, had it dropped the breaks without patching them
RECURSIVE endLoopUnpatched(_)
endLoopUnpatched(p) ==
    IF Len(CC(p).loop.breaks) > 0
    THEN endLoopUnpatched([p EXCEPT !.compilers[Top(p)].loop.breaks =
                                        SubSeq(@, 1, Len(@) - 1)])
    ELSE p

\* this patches all the breaks
RECURSIVE endLoop(_)
endLoop(p) ==
    IF Len(CC(p).loop.breaks) > 0
    THEN endLoop(logPatch(patchJmp([p EXCEPT !.compilers[Top(p)].loop.breaks =
                                                 SubSeq(@, 1, Len(@) - 1)],
                                   CC(p).loop.breaks[Len(CC(p).loop.breaks)]),
                          CC(p).loop.breaks[Len(CC(p).loop.breaks)]))
    ELSE p

\* for the record: the loop statement that began in state p has ended in
\* state q; top is the offset its iterations begin at and exit the offset
\* after its closing OP_JMPBACK
logLoop(q, kind, p, cached, top, exit) ==
    [q EXCEPT !.loops = Append(@, [kind |-> kind, from |-> p.pos, to |-> q.pos,
                                   level |-> Top(p), cached |-> cached,
                                   restored |-> CC(q).loop,
                                   top |-> top, exit |-> exit, end |-> count(q)])]

\* pstate->compiler->loop = cachedLoop, had it been left out
keepLoop(p, cachedLoop) == p

\* pstate->compiler->loop = cachedLoop
restoreLoop(p, cachedLoop) == [p EXCEPT !.compilers[Top(p)].loop = cachedLoop]

whileStatement(p) ==
    Only({ Only({ Only({ logLoop(patchJmp(restoreLoop(endLoop(back), CC(p).loop), j.ret),
                                 "while", p, CC(p).loop, count(p), count(back))
                         : back \in {writeJmpBack(endScope(body), count(p))} })
                  : body \in {block(beginScope(valuePopped(j, 1)))} })
           : j \in {writeJmp(consume(expression(startLoop(p), 1, TRUE), "DO",
                                     "expected 'do' after conditional expression."),
                             "OP_PEJMP")} })

\* endCompiler leaves the function of the compiler it ends in p.ret
endCompiler(p) ==
    Only({ [q EXCEPT !.compilers = SubSeq(@, 1, Len(@) - 1),
                     !.ret = CC(q).function]
           : q \in {writeu8(writeOp(writeOp(popLocals(p, CC(p).scopeDepth), "OP_NIL"),
                                    "OP_RETURN"),
                            1)} })

\* compiler.function->args++ and its check
addParameter(p) ==
    IF CC(p).function.args + 1 > UINT16_MAX - 1
    THEN errorAtCurrent([p EXCEPT !.compilers[Top(p)].function.args = @ + 1],
                        "Too many parameters!")
    ELSE [p EXCEPT !.compilers[Top(p)].function.args = @ + 1]

\* the do ... while (match(TOKEN_COMMA)) loop over the parameters of function
RECURSIVE parameterLoop(_)
parameterLoop(p) ==
    IF check(p, "DOT_DOT_DOT") THEN p
    ELSE Only({ IF check(q, "COMMA") THEN parameterLoop(advance(q)) ELSE q
                : q \in {valuePushed(
                             defineRet(parseVariable(addParameter(p),
                                                     "Expected identifier for parameter!",
                                                     TRUE),
                                       TRUE),
                             1)} })

parameters(p) == IF ~check(p, "RIGHT_PAREN") THEN parameterLoop(p) ELSE p

\* compiler.function->variadic = true
setVariadic(p) == [p EXCEPT !.compilers[Top(p)].function.variadic = TRUE]

variadic(p) ==
    IF check(p, "DOT_DOT_DOT")
    THEN setVariadic(
             valuePushed(
                 defineRet(parseVariable(advance(p),
                                         "Expected identifier for variadic dictionary!",
                                         TRUE),
                           TRUE),
                 1))
    ELSE p

\* the loop of function that tells the vm what locals/upvalues to pass to the
\* closure, as the bytes it writes: for upvalue i < upvals the opcode
\* OP_GETLOCAL or OP_GETUPVAL and then the index
writeUpvalues(p, upvalues, i, upvals) ==
    [p EXCEPT !.compilers[Top(p)].function.code =
        @ \o [j \in 1..(2 * (upvals - i)) |->
                IF j % 2 = 1
                THEN IF upvalues[i + (j + 1) \div 2].isLocal THEN "OP_GETLOCAL"
                                                               ELSE "OP_GETUPVAL"
                ELSE upvalues[i + j \div 2].index % 256]]

\* push closure: p.ret is the objFunc that endCompiler returned
pushClosure(p) ==
    valuePushed(
        writeu16Ret(makeConstant(writeOp(p, "OP_CLOSURE"), newFunctionValue(p.ret))),
        1)

\* function from its call of endCompiler on; body is the state before it
closeFunction(body) ==
    writeUpvalues(pushClosure(endCompiler(body)), CC(body).upvalues, 0,
                  CC(body).function.upvals)

\* function from beginScope to the ')' of its parameters
functionHead(compiler) ==
    consume(variadic(parameters(consume(beginScope(compiler), "LEFT_PAREN",
                                        "Expected '(' after identifier."))),
            "RIGHT_PAREN", "Expected ')' after parameters.")

\* function from the end of its block on; p is the state after block(pstate)
functionTail(p, savedPushed) == closeFunction(endScope(alignStack(p, savedPushed)))

\* function after initCompilerState
compileFunction(compiler) ==
    Only({ functionTail(body, CC(compiler).pushedValues)
           : body \in {block(functionHead(compiler))} })

function(p, type) == compileFunction(initCompilerState(p, type))

functionDeclaration(p) ==
    Only({ defineVariable(
               function(IF CC(var).scopeDepth > 0 THEN markInitialized(var, var.ret)
                                                  ELSE var,
                        "FUNCTION"),
               var.ret, FALSE)
           : var \in {parseVariable(p, "Expected identifer!", FALSE)} })

\* the do ... while (match(TOKEN_COMMA)) loop of returnStatement; p.ret is rvalues
RECURSIVE returnValues(_, _)
returnValues(p, rvalues) ==
    Only({ IF check(q, "COMMA")
           THEN returnValues(advance(q), rvalues + 1)
           ELSE Return(q, rvalues + 1)
           : q \in {expression(p, 1, TRUE)} })

\* writeu8(OP_RETURN); writeu8(rvalues); valuePopped(rvalues)
writeReturn(p, rvalues) == valuePopped(writeu8(writeOp(p, "OP_RETURN"), rvalues), rvalues)

writeReturnRet(p) == writeReturn(p, p.ret)

returnStatement(p) ==
    IF CC(p).type # "FUNCTION" /\ CC(p).type # "METHOD"
    THEN error(p, "Expected 'return' in function!")
    ELSE IF blockFollow(p.current)
    THEN writeu8(writeOp(writeOp(p, "OP_NIL"), "OP_RETURN"), 1)
    ELSE writeReturnRet(returnValues(p, 0))

localFunction(p) ==
    Only({ defineVariable(function(markInitialized(var, var.ret), "FUNCTION"),
                          var.ret, TRUE)
           : var \in {parseVariable(p, "Expected identifer!", TRUE)} })

\* the do ... while (match(TOKEN_COMMA)) loop of forEachLoop; p.ret is values
RECURSIVE forEachValues(_, _)
forEachValues(p, values) ==
    Only({ IF check(q, "COMMA")
           THEN forEachValues(advance(q), values + 1)
           ELSE Return(q, values + 1)
           : q \in {defineRet(parseVariable(p, "Expected identifier!", TRUE), TRUE)} })

\* mark a slot on the stack as reserved; nothing checks localCount here
reserveLocal(p) ==
    [p EXCEPT !.compilers[Top(p)].locals =
                    Store(@, CC(p).localCount, ReservedLocal(CC(p).scopeDepth)),
              !.compilers[Top(p)].localCount = @ + 1,
              !.written = IF CC(p).localCount > @ THEN CC(p).localCount ELSE @,
              !.undefined = @ \/ CC(p).localCount >= LocalsCapacity]

\* pstate->compiler->loop.scope--
outerLoopScope(p) == [p EXCEPT !.compilers[Top(p)].loop.scope = @ - 1]

\* forEachLoop from OP_NEXT on; do is the state after OP_ITER was written
forEachBody(do, values) ==
    Only({ Only({ Only({ valuePopped(
                             endScope(
                                 logLoop(patchJmp(restoreLoop(endLoop(back), CC(do).loop),
                                                  count(next)),
                                         "for in", do, CC(do).loop, count(do), count(back))),
                             1)
                         : back \in {writeJmpBack(endScope(body), count(do))} })
                  : body \in {block(valuePushed(writeu16(next, 65535), values))} })
           : next \in {writeu8(writeOp(outerLoopScope(startLoop(do)), "OP_NEXT"),
                               values)} })

forEachIterator(p, values) ==
    forEachBody(
        writeOp(consume(expression(consume(p, "IN", "Expected 'in' before iterator!"),
                                   1, TRUE),
                        "DO", "Expected 'do' before loop block!"),
                "OP_ITER"),
        values)

forEachLoop(p) ==
    Only({ IF v.ret > UINT8_MAX
           THEN error(v, "Too many values expected!")
           ELSE forEachIterator(v, v.ret)
           : v \in {forEachValues(beginScope(reserveLocal(beginScope(p))), 0)} })

RECURSIVE expressionStatement(_)

\* parse initializer
forInitializer(p) ==
    IF check(p, "EOS") THEN advance(p)
    ELSE consume(expressionStatement(p), "EOS", "Expected ';' after initializer!")

\* parse conditional; p.ret is exitJmp
forConditional(p) ==
    IF ~check(p, "EOS")
    THEN valuePopped(
             writeJmp(consume(expression(p, 1, TRUE), "EOS",
                              "Expected ';' after conditional"),
                      "OP_PEJMP"),
             1)
    ELSE Return(advance(p), -1)

\* parse iterator; p.ret is loopStart
forIterator(p, loopStart) ==
    IF ~check(p, "RIGHT_PAREN")
    THEN Only({ Only({ Return(
                           patchJmp(
                               writeJmpBack(
                                   consume(expression(stale, 0, TRUE), "RIGHT_PAREN",
                                           "Expected ')' after iterator"),
                                   loopStart),
                               b.ret),
                           count(stale))
                       : stale \in {startLoop(endLoop(b))} })
                : b \in {writeJmp(p, "OP_JMP")} })
    ELSE Return(advance(p), loopStart)

\* if (exitJmp != -1) patchJmp(pstate, exitJmp)
patchExit(p, exitJmp) == IF exitJmp # -1 THEN patchJmp(p, exitJmp) ELSE p

\* forLoop from consume(TOKEN_DO) on
forBody(p, loopStart, exitJmp, cachedLoop) ==
    Only({ Only({ endScope(
                      logLoop(restoreLoop(endLoop(patchExit(back, exitJmp)), cachedLoop),
                              "for", p, cachedLoop, loopStart, count(back)))
                  : back \in {writeJmpBack(endScope(body), loopStart)} })
           : body \in {block(beginScope(consume(p, "DO", "Expected 'do'")))} })

forBodyRet(p, exitJmp, cachedLoop) == forBody(p, p.ret, exitJmp, cachedLoop)

\* forLoop from its loop scope on
forLoopScope(p) ==
    Only({ forBodyRet(forIterator(c, count(p)), c.ret, CC(p).loop)
           : c \in {forConditional(startLoop(p))} })

forLoop(p) ==
    IF check(p, "IDENTIFIER") THEN forEachLoop(p)
    ELSE forLoopScope(
             forInitializer(consume(beginScope(p), "LEFT_PAREN", "Expected '(' after 'for'")))

\* pstate->compiler->localCount = savedLocals
setLocalCount(p, savedLocals) == [p EXCEPT !.compilers[Top(p)].localCount = savedLocals]

\* add break to loop: p.ret is what writeJmp returned
addBreak(p) == [p EXCEPT !.compilers[Top(p)].loop.breaks = Append(@, p.ret)]

\* for the record: the break or continue read in state p has written the
\* last three bytes of the code of q
logJump(q, form, p) ==
    [q EXCEPT !.jumps = Append(@, [form |-> form, pos |-> p.pos, level |-> Top(p),
                                   index |-> count(q) - 2,
                                   op |-> CC(q).function.code[count(q) - 2],
                                   operand |-> CC(q).function.code[count(q) - 1]
                                               + 256 * CC(q).function.code[count(q)]])]

breakStatement(p) ==
    IF CC(p).loop.scope = -1
    THEN error(p, "'break' cannot be used outside of a loop body!")
    ELSE logJump(addBreak(writeJmp(setLocalCount(popLocals(p, CC(p).loop.scope),
                                                 CC(p).localCount),
                                   "OP_JMP")),
                 "break", p)

continueStatement(p) ==
    IF CC(p).loop.scope = -1
    THEN error(p, "'continue' cannot be used outside of a loop body!")
    ELSE logJump(writeJmpBack(setLocalCount(popLocals(p, CC(p).loop.scope),
                                            CC(p).localCount),
                              CC(p).loop.startBytecode),
                 "continue", p)

\* the while loop of synchronize; skipped are the tokens it has advanced over
RECURSIVE synchronizeLoop(_, _)
synchronizeLoop(p, skipped) ==
    IF p.current.type # "EOF" /\ p.previous.type # "EOS"
    THEN synchronizeLoop(advance(p), Append(skipped, p.current.type))
    ELSE [p EXCEPT !.resync = @ \cup {[skipped |-> skipped, stop |-> p.current.type]}]

synchronize(p) == synchronizeLoop([p EXCEPT !.panic = FALSE], <<>>)

\* pstate->compiler->expectedValues = needed
setExpected(p, needed) == [p EXCEPT !.compilers[Top(p)].expectedValues = needed]

\* expression after its call of parsePrecedence
trimExpression(p, saved, forceNeeded) ==
    IF CC(p).pushedValues > saved
    THEN valuePopped(writePop(p, CC(p).pushedValues - saved), CC(p).pushedValues - saved)
    ELSE IF forceNeeded /\ CC(p).pushedValues < saved
    THEN error(p, "Missing expression!")
    ELSE p

\* pstate->compiler->expectedValues = lastExpected;
\* return pstate->compiler->pushedValues - (saved - needed);
returnExpression(p, lastExpected, saved, needed) ==
    Return(setExpected(p, lastExpected), CC(p).pushedValues - (saved - needed))

expression(p, needed, forceNeeded) ==
    Only({ returnExpression(
               trimExpression(parsed, CC(p).pushedValues + needed, forceNeeded),
               CC(p).expectedValues, CC(p).pushedValues + needed, needed)
           : parsed \in {parsePrecedence(setExpected(p, needed), PREC_ASSIGNMENT)} })

\* the statement form expressionStatement dispatches to, by the current token
StatementForm(p) ==
    CASE check(p, "VAR") -> "var"
      [] check(p, "LOCAL") ->
            IF scanToken(source, p.pos).type = "FUNCTION" THEN "local function" ELSE "local"
      [] check(p, "IF") -> "if"
      [] check(p, "DO") -> "do"
      [] check(p, "WHILE") -> "while"
      [] check(p, "FOR") ->
            IF scanToken(source, p.pos).type = "IDENTIFIER" THEN "for in" ELSE "for"
      [] check(p, "FUNCTION") -> "function"
      [] check(p, "PROTO") -> "proto"
      [] check(p, "BREAK") -> "break"
      [] check(p, "CONTINUE") -> "continue"
      [] check(p, "RETURN") -> "return"
      [] OTHER -> "expression"

\* the if ... else if chain of expressionStatement
statementOf(p, form) ==
    CASE form = "var" -> varDeclaration(advance(p), FALSE, 0)
      [] form = "local function" -> localFunction(advance(advance(p)))
      [] form = "local" -> varDeclaration(advance(p), TRUE, 0)
      [] form = "if" -> ifStatement(advance(p))
      [] form = "do" -> Only({ endScope(q) : q \in {block(beginScope(advance(p)))} })
      [] form = "while" -> whileStatement(advance(p))
      [] form \in {"for", "for in"} -> forLoop(advance(p))
      [] form = "function" -> functionDeclaration(advance(p))
      [] form = "proto" -> _proto(advance(p))
      [] form = "break" -> breakStatement(advance(p))
      [] form = "continue" -> continueStatement(advance(p))
      [] form = "return" -> returnStatement(advance(p))
      [] OTHER -> expression(p, 0, FALSE)

\* what the history of statements keeps of the state p a statement starts in:
\* the place of its first token in the source, that no error was reported
\* before it, the function and the scope it is in, pushedValues and the end
\* of the code
StatementStart(p) ==
    [at |-> p.pos - 1,
     clean |-> ~p.hadError,
     level |-> Top(p),
     scopeDepth |-> CC(p).scopeDepth,
     before |-> CC(p).pushedValues,
     from |-> Len(CC(p).function.code)]

\* the record of one run of expressionStatement: from start to the state q
logStatement(start, q, form) ==
    [q EXCEPT !.log = @ \cup {[form |-> form,
                               at |-> start.at,
                               clean |-> start.clean,
                               level |-> start.level,
                               scopeDepth |-> start.scopeDepth,
                               before |-> start.before,
                               after |-> CC(q).pushedValues,
                               from |-> start.from,
                               to |-> Len(CC(q).function.code),
                               hadError |-> q.hadError]}]

expressionStatement(p) ==
    Only({ logStatement(StatementStart(p),
                        \* realign the stack
                        alignStack(q, CC(p).pushedValues),
                        StatementForm(p))
           : q \in {statementOf(p, StatementForm(p))} })

statement(p) == expressionStatement(p)

\* if we paniced, skip the whole statement!
skipStatement(p) == IF p.panic THEN synchronize(p) ELSE p

declaration(p) == skipStatement(statement(p))

(***************************************************************************)
(* cosmoP_compileString                                                    *)
(***************************************************************************)
\* cosmoM_freezeGC / cosmoM_unfreezeGC: freezing is a count
cosmoM_freezeGC(n) == n + 1
cosmoM_unfreezeGC(n) == n - 1

\* cosmoV_pushValue
cosmoV_pushValue(s, val) == Append(s, val)

NilValue == [kind |-> "nil", fn |-> <<>>]

\* the most objects a script has made
MaxObjects == 2

\* the CState after cosmoV_newState, and after a script has made its
\* objects: no global, no registered prototype, no error; a heap object is
\* its prototype, 0 for none, and its fields
newState ==
    [globals |-> <<>>, protoObjects |-> <<>>, panic |-> FALSE, error |-> "",
     crashed |-> FALSE,
     objects |-> [o \in 1..MaxObjects |-> [proto |-> 0, fields |-> <<>>]]]
ClosureValue(f) == [kind |-> "closure", fn |-> <<f>>]

\* the parse state before cosmoP_compileString has set one up
NoParseState == [initParseState EXCEPT !.compilers = <<>>]

\* freeze the GC, set up the parser, read the first token
Start ==
    /\ pc = "idle"
    /\ freezeGC' = cosmoM_freezeGC(freezeGC)
    /\ ps' = advance(initParseState)
    /\ pc' = "compiling"
    /\ UNCHANGED <<source, caller, state, applied, stack, result>>

\* a declaration that never returns leaves the parser where it was
Spun(q) == IF q.spin THEN [ps EXCEPT !.spin = TRUE] ELSE q

(***************************************************************************)
(* A function declared by a statement of the script, or of the body of    *)
(* such a function, is compiled one statement of its body per step.       *)
(* p.frames holds, for every such function that is open, what the calls   *)
(* of expressionStatement, functionDeclaration or localFunction, and      *)
(* function keep in their local variables until block(pstate) returns.    *)
(* A function inside any other statement or expression is compiled        *)
(* within the step of that statement.                                     *)
(***************************************************************************)
\* the statement at the current token is a function declaration
OpensFunction(p) == StatementForm(p) \in {"function", "local function"}

\* functionDeclaration and localFunction up to the call of function
declareFunction(p, form) ==
    IF form = "local function"
    THEN Only({ markInitialized(var, var.ret)
                : var \in {parseVariable(advance(advance(p)), "Expected identifer!", TRUE)} })
    ELSE Only({ Return(IF CC(var).scopeDepth > 0 THEN markInitialized(var, var.ret) ELSE var,
                       var.ret)
                : var \in {parseVariable(advance(p), "Expected identifer!", FALSE)} })

\* the local variables of the calls that wait for block(pstate) to return
Frame(form, start, var, compiler) ==
    [form |-> form, start |-> start, var |-> var,
     savedPushed |-> CC(compiler).pushedValues]

\* function up to its call of block; p.ret is var
enterFunction(p, form, start, compiler) ==
    [functionHead(compiler) EXCEPT !.frames = Append(@, Frame(form, start, p.ret, compiler))]

openFunction(p, form, start) ==
    enterFunction(p, form, start, initCompilerState(p, "FUNCTION"))

\* the statement from the return of block(pstate) on: the rest of function,
\* of functionDeclaration or localFunction, of expressionStatement and of
\* declaration
closeStatement(p, frame) ==
    skipStatement(
        logStatement(frame.start,
                     alignStack(defineVariable(functionTail(blockEnd(p), frame.savedPushed),
                                               frame.var, frame.form = "local function"),
                                frame.start.before),
                     frame.form))

leaveFunction(p) ==
    closeStatement([p EXCEPT !.frames = SubSeq(@, 1, Len(@) - 1)], p.frames[Len(p.frames)])

\* the loop that the parser is in goes on: the loop of cosmoP_compileString,
\* or the loop of block in the function that is open
GoesOn(p) == IF p.frames = <<>> THEN ~check(p, "EOF") ELSE blockGoesOn(p)

\* one iteration of while (!match(&parser, TOKEN_EOF)) declaration(&parser),
\* or of the loop of block in the function that is open
Declaration ==
    /\ pc = "compiling"
    /\ GoesOn(ps)
    /\ ~OpensFunction(ps)
    /\ ps' = Spun(declaration(ps))
    /\ pc' = IF ps'.spin THEN "spinning" ELSE "compiling"
    /\ UNCHANGED <<source, caller, state, applied, stack, freezeGC, result>>

\* an iteration that declares a function, up to the block of the function
BeginFunction ==
    /\ pc = "compiling"
    /\ GoesOn(ps)
    /\ OpensFunction(ps)
    /\ ps' = openFunction(declareFunction(ps, StatementForm(ps)), StatementForm(ps),
                          StatementStart(ps))
    /\ UNCHANGED <<source, pc, caller, state, applied, stack, freezeGC, result>>

\* the block of the open function ends, and with it the iteration that
\* declared the function
EndFunction ==
    /\ pc = "compiling"
    /\ ps.frames # <<>>
    /\ ~blockGoesOn(ps)
    /\ ps' = leaveFunction(ps)
    /\ UNCHANGED <<source, pc, caller, state, applied, stack, freezeGC, result>>

\* what the undefined behaviour of an earlier step does to the run: the run
\* may also go on, as if the step had done what its text says
Abort ==
    /\ pc = "compiling"
    /\ ps.undefined
    /\ pc' = "aborted"
    /\ UNCHANGED <<source, caller, state, applied, ps, stack, freezeGC, result>>

\* the parser once the loop has matched TOKEN_EOF: consume, popLocals
Finished(p) == popLocals(consume(advance(p), "EOF", "End of file expected!"), 0)

\* the return of the error path, had it pushed nothing for the VM
ReturnNullWithoutPush ==
    /\ pc = "compiling"
    /\ ps.frames = <<>>
    /\ check(ps, "EOF")
    /\ Finished(ps).hadError
    /\ ps' = endCompiler(Finished(ps))
    /\ freezeGC' = cosmoM_unfreezeGC(freezeGC)
    /\ result' = [kind |-> "NULL", fn |-> <<>>]
    /\ pc' = "done"
    /\ UNCHANGED <<source, caller, state, applied, stack>>

\* the return of the error path
ReturnNull ==
    /\ pc = "compiling"
    /\ ps.frames = <<>>
    /\ check(ps, "EOF")
    /\ Finished(ps).hadError
    /\ ps' = endCompiler(Finished(ps))
    /\ stack' = cosmoV_pushValue(stack, NilValue)
    /\ freezeGC' = cosmoM_unfreezeGC(freezeGC)
    /\ result' = [kind |-> "NULL", fn |-> <<>>]
    /\ pc' = "done"
    /\ UNCHANGED <<source, caller, state, applied>>

\* CObjFunction* resFunc = compiler.function: a pointer to the function, which
\* endCompiler completes before cosmoP_compileString returns
resFunc(p) == endCompiler(p).ret

\* the return of the success path, had it left the GC frozen
ReturnFunctionFrozen ==
    /\ pc = "compiling"
    /\ ps.frames = <<>>
    /\ check(ps, "EOF")
    /\ ~Finished(ps).hadError
    /\ stack' = cosmoV_pushValue(stack, ClosureValue(resFunc(Finished(ps))))
    /\ ps' = endCompiler(Finished(ps))
    /\ result' = [kind |-> "function", fn |-> <<resFunc(Finished(ps))>>]
    /\ pc' = "done"
    /\ UNCHANGED <<source, caller, state, applied, freezeGC>>

\* the return of the success path
ReturnFunction ==
    /\ pc = "compiling"
    /\ ps.frames = <<>>
    /\ check(ps, "EOF")
    /\ ~Finished(ps).hadError
    /\ stack' = cosmoV_pushValue(stack, ClosureValue(resFunc(Finished(ps))))
    /\ ps' = endCompiler(Finished(ps))
    /\ freezeGC' = cosmoM_unfreezeGC(freezeGC)
    /\ result' = [kind |-> "function", fn |-> <<resFunc(Finished(ps))>>]
    /\ pc' = "done"
    /\ UNCHANGED <<source, caller, state, applied>>

(***************************************************************************)
(* The operand stack the emitted code would leave                          *)
(*                                                                         *)
(* The stack effect of every instruction (section 4.3 of the              *)
(* specification and the comments of cparse.c at the places that emit     *)
(* it), followed over the code of one function, jumps included.  A height  *)
(* is <<h>>, or <<>> where no path reaches.                                *)
(***************************************************************************)
\* the operand bytes that follow an opcode
OperandBytes(op) ==
    CASE op \in {"OP_LOADCONST", "OP_GETGLOBAL", "OP_SETGLOBAL", "OP_NEWDICT",
                 "OP_NEWOBJECT", "OP_CLOSURE", "OP_JMP", "OP_JMPBACK", "OP_PEJMP",
                 "OP_EJMP", "OP_INCLOCAL", "OP_INCUPVAL", "OP_CALL", "OP_INVOKE"} -> 2
      [] op \in {"OP_POP", "OP_CONCAT", "OP_GETLOCAL", "OP_SETLOCAL", "OP_GETUPVAL",
                 "OP_SETUPVAL", "OP_RETURN", "OP_INCINDEX"} -> 1
      [] op \in {"OP_INCGLOBAL", "OP_INCOBJECT", "OP_NEXT"} -> 3
      [] OTHER -> 0

\* the values an instruction adds to the stack on the path that falls through
\* it; a, b are its first two operand bytes
StackEffect(op, a, b) ==
    CASE op \in {"OP_LOADCONST", "OP_NIL", "OP_TRUE", "OP_FALSE", "OP_GETLOCAL",
                 "OP_GETUPVAL", "OP_GETGLOBAL", "OP_INCLOCAL", "OP_INCUPVAL",
                 "OP_INCGLOBAL", "OP_CLOSURE"} -> 1
      [] op = "OP_POP" -> -a
      [] op \in {"OP_ADD", "OP_SUB", "OP_MULT", "OP_DIV", "OP_MOD", "OP_EQUAL",
                 "OP_GREATER", "OP_LESS", "OP_GREATER_EQUAL", "OP_LESS_EQUAL",
                 "OP_SETLOCAL", "OP_SETUPVAL", "OP_SETGLOBAL", "OP_GETOBJECT",
                 "OP_INDEX", "OP_INCINDEX", "OP_CLOSE", "OP_PEJMP"} -> -1
      [] op = "OP_CONCAT" -> 1 - a
      [] op \in {"OP_SETOBJECT", "OP_NEWINDEX"} -> -3
      [] op \in {"OP_NEWDICT", "OP_NEWOBJECT"} -> 1 - 2 * a
      [] op = "OP_CALL" -> b - (a + 1)
      [] op = "OP_INVOKE" -> b - (a + 2)
      [] op = "OP_NEXT" -> a
      [] OTHER -> 0

AddHeight(h, d) == IF h = <<>> THEN <<>> ELSE <<h[1] + d>>

\* the height where two paths meet; they agree when Agree holds
Merge(h, g) == IF h = <<>> THEN g ELSE h
Agree(h, g) == h = <<>> \/ g = <<>> \/ h = g

\* the first and the second operand byte of the instruction at ip
OperandA(f, ip) == IF OperandBytes(f.code[ip + 1]) >= 1 THEN f.code[ip + 2] ELSE 0
OperandB(f, ip) == IF OperandBytes(f.code[ip + 1]) >= 2 THEN f.code[ip + 3] ELSE 0

\* the bytes of the upvalue directives that follow OP_CLOSURE
Directives(f, ip) ==
    IF f.code[ip + 1] = "OP_CLOSURE"
    THEN 2 * f.constants[OperandA(f, ip) + 256 * OperandB(f, ip) + 1].fn[1].upvals
    ELSE 0

\* the offset of the instruction after the one at ip
After(f, ip) == ip + 1 + OperandBytes(f.code[ip + 1]) + Directives(f, ip)

Jumps(op) == op \in {"OP_JMP", "OP_PEJMP", "OP_EJMP", "OP_NEXT", "OP_JMPBACK"}

\* the offset a jump at ip goes to
Target(f, ip) ==
    CASE f.code[ip + 1] = "OP_NEXT" ->
             After(f, ip) + OperandB(f, ip) + 256 * f.code[ip + 4]
      [] f.code[ip + 1] = "OP_JMPBACK" ->
             After(f, ip) - (OperandA(f, ip) + 256 * OperandB(f, ip))
      [] OTHER -> After(f, ip) + OperandA(f, ip) + 256 * OperandB(f, ip)

\* the jump at ip goes to an offset of the code
Inside(f, ip) ==
    Jumps(f.code[ip + 1]) /\ Target(f, ip) >= 0 /\ Target(f, ip) <= Len(f.code)

\* the height on the path that jumps, and on the path that falls through
Taken(op, cur) == IF op = "OP_PEJMP" THEN AddHeight(cur, -1) ELSE cur
Fall(f, ip, cur) ==
    IF f.code[ip + 1] \in {"OP_JMP", "OP_JMPBACK", "OP_RETURN"}
    THEN <<>>
    ELSE AddHeight(cur, StackEffect(f.code[ip + 1], OperandA(f, ip), OperandB(f, ip)))

Lower(cur, low) == IF cur # <<>> /\ cur[1] < low THEN cur[1] ELSE low

\* the heights once the instruction at ip, reached with height cur, has run
HeightsAfter(f, ip, cur, at) ==
    IF Inside(f, ip)
    THEN [at EXCEPT ![ip + 1] = cur,
                    ![Target(f, ip) + 1] =
                        Merge(IF Target(f, ip) = ip THEN cur ELSE @,
                              Taken(f.code[ip + 1], cur))]
    ELSE [at EXCEPT ![ip + 1] = cur]

\* the jump at ip, if it is one, meets the height its target was reached with
JumpAgrees(f, ip, cur, at) ==
    Jumps(f.code[ip + 1]) =>
        /\ Inside(f, ip)
        /\ Agree([at EXCEPT ![ip + 1] = cur][Target(f, ip) + 1],
                 Taken(f.code[ip + 1], cur))

\* follows the code of the function f from the instruction at ip, reached by
\* falling through with height h: at[i + 1] is the height at offset i, ok that
\* all paths that meet agreed, low the lowest height seen
RECURSIVE Follow(_, _, _, _, _, _)
Follow(f, ip, h, at, ok, low) ==
    IF ip >= Len(f.code)
    THEN [at |-> [at EXCEPT ![ip + 1] = Merge(h, at[ip + 1])],
          ok |-> ok /\ Agree(h, at[ip + 1]),
          final |-> Merge(h, at[ip + 1]),
          low |-> Lower(Merge(h, at[ip + 1]), low)]
    ELSE Follow(f, After(f, ip), Fall(f, ip, Merge(h, at[ip + 1])),
                HeightsAfter(f, ip, Merge(h, at[ip + 1]), at),
                ok /\ Agree(h, at[ip + 1]) /\ JumpAgrees(f, ip, Merge(h, at[ip + 1]), at),
                Lower(Merge(h, at[ip + 1]), low))

\* the code of f run from height h0
Heights(f, h0) ==
    Follow(f, 0, <<h0>>, [i \in 1..(Len(f.code) + 1) |-> <<>>], TRUE, h0)

\* the parameters a call leaves on the stack as the first locals
EntryHeight(f) == f.args + (IF f.variadic THEN 1 ELSE 0)

\* the functions compiled into the constant pool of f, f included
RECURSIVE FunctionsOf(_)
FunctionsOf(f) ==
    {f} \cup UNION {FunctionsOf(f.constants[i].fn[1]) :
                        i \in {j \in 1..Len(f.constants) : f.constants[j].kind = "function"}}

(***************************************************************************)
(* Source texts                                                            *)
(***************************************************************************)
RECURSIVE Flatten(_)
Flatten(ss) == IF ss = <<>> THEN <<>> ELSE Head(ss) \o Flatten(Tail(ss))

\* a source text written as words: a keyword or punctuation token by its
\* TOKEN_ name, an identifier as a, b, c, ..., a number literal as its digit
Word(w) ==
    CASE w \in {"a", "b", "c", "d", "e", "f", "g", "i", "k", "n", "t", "x"} ->
            Id(CHOOSE j \in 1..12 : <<"a", "b", "c", "d", "e", "f", "g", "i", "k", "n", "t", "x">>[j] = w)
      [] w \in {"0", "1", "2"} -> Num(CHOOSE j \in 0..2 : <<"0", "1", "2">>[j + 1] = w)
      [] OTHER -> Tok(w)

Text(ws) == [j \in 1..Len(ws) |-> Word(ws[j])]

\* the sources of n pieces of a menu, one after the other
Compose(menu, n) ==
    {Text(Flatten([j \in 1..n |-> menu[pick[j]]])) : pick \in [1..n -> 1..Len(menu)]}

UpTo(menu, most) == UNION {Compose(menu, n) : n \in 0..most}

\* complete statements, one of every form
Statements == <<
    <<"VAR", "a", "EQUAL", "1">>,
    <<"LOCAL", "b", "EQUAL", "a", "PLUS", "2", "STAR", "1">>,
    <<"LOCAL", "c", "COMMA", "d", "EQUAL", "1">>,
    <<"a", "EQUAL", "b", "EOS">>,
    <<"IF", "a", "THEN", "b", "EQUAL", "1", "ELSEIF", "b", "THEN", "LOCAL", "c", "ELSE",
      "b", "EQUAL", "2", "END">>,
    <<"WHILE", "a", "LESS", "2", "DO", "LOCAL", "c", "EQUAL", "a", "IF", "c", "THEN",
      "BREAK", "END", "CONTINUE", "END">>,
    <<"FOR", "LEFT_PAREN", "VAR", "i", "EQUAL", "0", "EOS", "i", "LESS", "2", "EOS",
      "i", "PLUS_PLUS", "RIGHT_PAREN", "DO", "a", "EQUAL", "i", "END">>,
    <<"FOR", "k", "COMMA", "x", "IN", "t", "DO", "a", "EQUAL", "x", "END">>,
    <<"FUNCTION", "f", "LEFT_PAREN", "n", "RIGHT_PAREN", "RETURN", "n", "PLUS", "b", "END">>,
    <<"LOCAL", "FUNCTION", "g", "LEFT_PAREN", "RIGHT_PAREN", "RETURN", "END">>,
    <<"PROTO", "e", "FUNCTION", "f", "LEFT_PAREN", "x", "RIGHT_PAREN", "END", "END">>,
    <<"RETURN", "a">>,
    <<"f", "LEFT_PAREN", "a", "COMMA", "1", "RIGHT_PAREN">>,
    <<"a", "AND", "b">>,
    <<"LOCAL", "c", "EQUAL", "a", "OR", "b">>,
    <<"t", "DOT", "a", "EQUAL", "t", "LEFT_BRACKET", "0", "RIGHT_BRACKET">>,
    <<"PLUS_PLUS", "b">>,
    <<"DO", "LOCAL", "d", "EQUAL", "1", "FUNCTION", "g", "LEFT_PAREN", "RIGHT_PAREN",
      "RETURN", "d", "PLUS", "b", "END", "END">>,
    <<"BREAK">>,
    <<"DO", "LOCAL", "d", "EQUAL", "a", "OR", "b", "END">>,
    <<"LOCAL", "e", "EQUAL", "1", "COMMA", "2">>,
    <<"WHILE", "a", "DO", "FUNCTION", "g", "LEFT_PAREN", "RIGHT_PAREN", "BREAK", "END", "END">>,
    <<"FOR", "k", "COMMA", "x", "IN", "t", "DO", "b", "EQUAL", "FUNCTION", "LEFT_PAREN",
      "RIGHT_PAREN", "CONTINUE", "END", "END">>,
    <<"CONTINUE">>,
    <<"FUNCTION", "f", "LEFT_PAREN", "n", "RIGHT_PAREN", "MINUS_MINUS", "n",
      "b", "MINUS_MINUS", "n", "PLUS_PLUS", "RETURN", "PLUS_PLUS", "b", "END">>,
    <<"b", "MINUS_MINUS">>,
    <<"MINUS_MINUS", "t", "DOT", "a">>,
    <<"PLUS_PLUS", "t", "LEFT_BRACKET", "0", "RIGHT_BRACKET">>,
    <<"t", "DOT", "a", "PLUS_PLUS">>,
    <<"t", "LEFT_BRACKET", "0", "RIGHT_BRACKET", "MINUS_MINUS">>
>>

\* pieces of statements, whole and broken, and statement terminators
Pieces == <<
    <<"1", "EQUAL", "2">>,
    <<"a", "EQUAL", "1">>,
    <<"EOS">>,
    <<"END">>,
    <<"ELSE">>,
    <<"ELSEIF">>,
    <<"RIGHT_PAREN">>,
    <<"1", "PLUS_PLUS">>,
    <<"ERROR">>
>>

\* expressions that can be assigned to: a variable, a field, an index
Assignable == <<
    <<"a">>,
    <<"t", "DOT", "a">>,
    <<"t", "LEFT_BRACKET", "0", "RIGHT_BRACKET">>,
    <<"t", "DOT", "a", "DOT", "b">>,
    <<"t", "LEFT_BRACKET", "a", "PLUS", "1", "RIGHT_BRACKET">>,
    <<"f", "LEFT_PAREN", "RIGHT_PAREN", "DOT", "a">>
>>

\* those of them that are, or start from, a variable and call nothing
OfVariables == 1..5

\* expressions that cannot
NotAssignable == <<
    <<"a", "PLUS", "b">>,
    <<"1">>,
    <<"f", "LEFT_PAREN", "RIGHT_PAREN">>,
    <<"MINUS", "a">>,
    <<"BANG", "a">>,
    <<"LEFT_PAREN", "a", "RIGHT_PAREN">>,
    <<"a", "STAR", "b", "PLUS", "d">>,
    <<"a", "EQUAL_EQUAL", "b">>,
    <<"a", "LESS", "t", "DOT", "b">>,
    <<"a", "DOT_DOT", "b">>,
    <<"a", "AND", "b">>,
    <<"a", "OR", "t", "LEFT_BRACKET", "0", "RIGHT_BRACKET">>,
    <<"a", "PLUS_PLUS">>,
    <<"MINUS_MINUS", "a">>,
    <<"t", "DOT", "f", "LEFT_PAREN", "RIGHT_PAREN">>
>>

\* the places of an expression: what is written before and after it.  The
\* first two are those of a statement.
Contexts == <<
    <<<<>>, <<>>>>,
    <<<<"WHILE", "a", "DO">>, <<"END">>>>,
    <<<<"x", "EQUAL">>, <<>>>>,
    <<<<"f", "LEFT_PAREN">>, <<"RIGHT_PAREN">>>>,
    <<<<"LOCAL", "x", "EQUAL", "1", "PLUS", "LEFT_PAREN">>, <<"RIGHT_PAREN">>>>,
    <<<<"IF">>, <<"THEN", "END">>>>,
    <<<<"FUNCTION", "f", "LEFT_PAREN", "RIGHT_PAREN", "RETURN">>, <<"END">>>>,
    <<<<"t", "LEFT_BRACKET">>, <<"RIGHT_BRACKET">>>>
>>

StatementContexts == {1, 2}

\* the sources that assign c to the expressions js of the menu, in the
\* contexts ks
AssignmentsTo(menu, js, ks) ==
    {Text(Contexts[k][1] \o menu[j] \o <<"EQUAL", "c">> \o Contexts[k][2])
        : k \in ks, j \in js}


\* the constant sets of sources that assign
NotAssignableSources ==
    AssignmentsTo(NotAssignable, 1..Len(NotAssignable), 1..Len(Contexts))

AssignableSources == AssignmentsTo(Assignable, 1..Len(Assignable), 1..Len(Contexts))

AssignmentStatements == AssignmentsTo(Assignable, OfVariables, StatementContexts)

\* binary operators, of every level of precedence
Operators == <<"DOT_DOT", "OR", "AND", "EQUAL_EQUAL", "BANG_EQUAL", "LESS", "PLUS", "MINUS",
               "STAR">>

\* the most operators of an expression
MaxOperators == 3

\* the operands of an expression, in their order
Operands == <<"a", "b", "c", "d", "e">>

\* what an operand may be written with: nothing, a unary operator before it,
\* a call after it
Bare == <<<<>>, <<>>>>

Dressed == <<
    <<<<"MINUS">>, <<>>>>,
    <<<<"BANG">>, <<>>>>,
    <<<<"MINUS">>, <<"LEFT_PAREN", "RIGHT_PAREN">>>>
>>

\* operand j in the dress d
Dress(j, d) == d[1] \o <<Operands[j]>> \o d[2]

\* the expression of n operators ops[1..n] whose operand k is dressed as d
ExpressionOf(n, ops, k, d) ==
    Dress(1, IF k = 1 THEN d ELSE Bare)
    \o Flatten([j \in 1..n |-> <<Operators[ops[j]]>>
                                  \o Dress(j + 1, IF k = j + 1 THEN d ELSE Bare)])

\* local x = <expression>: every expression of up to MaxOperators operators
\* over bare operands, and every expression of two operators with one operand
\* dressed
ExpressionSources ==
    {Text(<<"LOCAL", "x", "EQUAL">> \o ExpressionOf(n, ops, 0, Bare))
        : ops \in [1..MaxOperators -> 1..Len(Operators)], n \in 1..MaxOperators}
    \cup {Text(<<"LOCAL", "x", "EQUAL">> \o ExpressionOf(2, ops, k, Dressed[d]))
            : ops \in [1..2 -> 1..Len(Operators)], k \in 1..3, d \in 1..Len(Dressed)}

\* loops of every form: while, for without a step, for with one, for with
\* a step and no condition, for in
LoopHeads == <<
    <<"WHILE", "a", "DO">>,
    <<"FOR", "LEFT_PAREN", "EOS", "a", "EOS", "RIGHT_PAREN", "DO">>,
    <<"FOR", "LEFT_PAREN", "EOS", "a", "EOS", "b", "PLUS_PLUS", "RIGHT_PAREN", "DO">>,
    <<"FOR", "LEFT_PAREN", "EOS", "EOS", "b", "PLUS_PLUS", "RIGHT_PAREN", "DO">>,
    <<"FOR", "k", "IN", "t", "DO">>
>>
\* what stands in a loop, before or after a loop inside it
LoopItems == <<
    <<>>,
    <<"BREAK">>,
    <<"CONTINUE">>,
    <<"LOCAL", "c", "EQUAL", "1", "IF", "c", "THEN", "BREAK", "END", "CONTINUE">>
>>
LoopOf(h, body) == LoopHeads[h] \o body \o <<"END">>
\* a loop, alone or in a function, and a loop in a loop
LoopSources ==
    {Text(LoopOf(h, LoopItems[i])) : h \in 1..Len(LoopHeads), i \in 1..Len(LoopItems)}
    \cup {Text(<<"FUNCTION", "f", "LEFT_PAREN", "RIGHT_PAREN">>
               \o LoopOf(h, LoopItems[i]) \o <<"END">>)
            : h \in 1..Len(LoopHeads), i \in 1..Len(LoopItems)}
    \cup {Text(LoopOf(h, LoopItems[i] \o LoopOf(g, LoopItems[j]) \o LoopItems[k]))
            : h \in 1..Len(LoopHeads), g \in 1..Len(LoopHeads),
              i \in {1, Len(LoopItems)}, j \in 1..Len(LoopItems), k \in 1..Len(LoopItems)}
\* what stands in the body of a proto: nothing, methods, and what is neither
\* a method nor the end of the body
ProtoItems == <<
    <<>>,
    <<"FUNCTION", "f", "LEFT_PAREN", "RIGHT_PAREN", "END">>,
    <<"FUNCTION", "f", "LEFT_PAREN", "RIGHT_PAREN", "END",
      "FUNCTION", "g", "LEFT_PAREN", "x", "RIGHT_PAREN", "RETURN", "x", "END">>,
    <<"x">>,
    <<"a", "EQUAL", "1">>,
    <<"LOCAL", "c">>,
    <<"FUNCTION", "f", "LEFT_PAREN", "RIGHT_PAREN", "END", "EOS">>,
    <<"f", "LEFT_PAREN", "RIGHT_PAREN", "END">>
>>
\* a proto, alone, after a statement and in a function
ProtoSources ==
    {Text(<<"PROTO", "e">> \o ProtoItems[i] \o <<"END">>) : i \in 1..Len(ProtoItems)}
    \cup {Text(<<"VAR", "a", "EQUAL", "1", "PROTO", "e">> \o ProtoItems[i] \o <<"END">>)
            : i \in 1..Len(ProtoItems)}
    \cup {Text(<<"FUNCTION", "g", "LEFT_PAREN", "RIGHT_PAREN", "PROTO", "e">>
               \o ProtoItems[i] \o <<"END", "END">>)
            : i \in 1..Len(ProtoItems)}
\* a local declared twice in one scope, and in a scope and a scope inside
\* it: in the script, in a block, in a function body
ScopeOpeners == <<
    <<>>,
    <<"DO">>,
    <<"FUNCTION", "f", "LEFT_PAREN", "RIGHT_PAREN">>,
    <<"DO", "DO">>,
    <<"FUNCTION", "f", "LEFT_PAREN", "c", "RIGHT_PAREN">>
>>
ScopeClosers == <<<<>>, <<"END">>, <<"END">>, <<"END", "END">>, <<"END">>>>
ScopeSources ==
    {Text(ScopeOpeners[o] \o <<"LOCAL", "c", "LOCAL", n>> \o ScopeClosers[o])
        : o \in 1..Len(ScopeOpeners), n \in {"c", "d"}}
    \cup {Text(ScopeOpeners[o] \o <<"LOCAL", "c", "DO", "LOCAL", n, "END">> \o ScopeClosers[o])
            : o \in 1..Len(ScopeOpeners), n \in {"c", "d"}}
MaxStmts == 2
MaxPieces == 3
MaxFreeze == 1
MaxStack == 1

Sources ==
    UpTo(Statements, MaxStmts) \cup UpTo(Pieces, MaxPieces)
    \cup AssignableSources \cup NotAssignableSources
    \cup ExpressionSources
    \cup LoopSources
    \cup ProtoSources
    \cup ScopeSources

\* identifiers of the long sources: v1, v2, ... and the names m, w1, w2, i
Var(j) == Id(100 + j)
NameM == Id(1)
NameW1 == Id(2)
NameW2 == Id(3)
NameI == Id(4)

\* local v1 local v2 ... local vn
LocalDeclarations(n) ==
    [j \in 1..(2 * n) |-> IF j % 2 = 1 THEN Tok("LOCAL") ELSE Var(j \div 2)]

\* v1 v2 ... vn: n expression statements, each a reference to a variable
References(n) == [j \in 1..n |-> Var(j)]

\* local v1 ... local vn
\* function m() local w1 local w2 local function i() v1 ... vn w1 w2 v1 end end
\* the inner function captures v1 ... vn through m, and w1 and w2 from m
CaptureSource(n) ==
    LocalDeclarations(n)
    \o <<Tok("FUNCTION"), NameM, Tok("LEFT_PAREN"), Tok("RIGHT_PAREN"),
         Tok("LOCAL"), NameW1, Tok("LOCAL"), NameW2,
         Tok("LOCAL"), Tok("FUNCTION"), NameI, Tok("LEFT_PAREN"), Tok("RIGHT_PAREN")>>
    \o References(n)
    \o <<NameW1, NameW2, Var(1), Tok("END"), Tok("END")>>

\* the most local declarations of a long source, and the most variables of
\* the script that the inner function of a long source captures
MaxLocals == 256
MaxCaptured == 255

\* local v1 ... local vn for m in v1 do end
ForInSource(n) ==
    LocalDeclarations(n)
    \o <<Tok("FOR"), NameM, Tok("IN"), Var(1), Tok("DO"), Tok("END")>>

LimitSources ==
    {LocalDeclarations(n) : n \in (MaxLocals - 2)..MaxLocals}
    \cup {CaptureSource(n) : n \in (MaxCaptured - 1)..MaxCaptured}
    \cup {ForInSource(n) : n \in (MaxLocals - 3)..(MaxLocals - 1)}

InitWith(sources) ==
    /\ source \in sources
    /\ pc = "idle"
    /\ ps = NoParseState
    /\ stack \in {[j \in 1..n |-> NilValue] : n \in 0..MaxStack}
    /\ freezeGC \in 0..MaxFreeze
    /\ result = [kind |-> "none", fn |-> <<>>]
    /\ caller = [stack |-> stack, freezeGC |-> freezeGC]
    /\ applied = <<>>
    /\ state = newState

Init == InitWith(Sources)

Next ==
    Start \/ Declaration \/ BeginFunction \/ EndFunction \/ Abort \/ ReturnNull
    \/ ReturnFunction

Spec == Init /\ [][Next]_vars

\* the same program on the long sources
InitLimits == InitWith(LimitSources)

SpecLimits == InitLimits /\ [][Next]_vars

(***************************************************************************)
(* Long code and full constant pools                                       *)
(*                                                                         *)
(* The functions that write jumps and constants, called in the order that  *)
(* ifStatement and whileStatement call them, on a chunk that holds as many *)
(* bytes or constants as thousands of statements leave in it.  The code    *)
(* between a jump and its target is not compiled statement by statement:   *)
(* it is n bytes of code.  The state keeps what the call was applied to    *)
(* and what it gave, not the chunk.                                        *)
(***************************************************************************)
\* the most bytes of code before the jump, the most bytes by which a body
\* falls short of UINT16_MAX, the most constants the pool lacks to be full,
\* and the most calls of makeConstant in a row
MaxBefore == 2
MaxShort == 9
MaxLacking == 2
MaxMade == 2

\* what compiling n one-byte instructions leaves in the chunk
writeBody(p, n) ==
    [p EXCEPT !.compilers[Top(p)].function.code = @ \o [j \in 1..n |-> "OP_NIL"]]

\* what compiling m different number literals leaves in the pool
writePool(p, m) ==
    [p EXCEPT !.compilers[Top(p)].function.constants = @ \o [j \in 1..m |-> newNumber(j)]]

BodySizes == {0, 1} \cup (UINT16_MAX - MaxShort)..(UINT16_MAX + 1)

\* whileStatement up to the end of the body: the condition, the exit jump
\* and the body
loopBody(before, i, n) ==
    writeBody(writeJmp(writeBody(initParseState, before), i), n)

\* what a call made of the parser p, as far as the compilation shows it
Outcome(p) ==
    [count |-> count(p), constants |-> Len(CC(p).function.constants),
     ret |-> p.ret, hadError |-> p.hadError, diagnostics |-> p.diagnostics]

\* the operand and the target of the jump at offset ip of the code of p
JumpAt(p, ip) ==
    [operand |-> CC(p).function.code[ip + 2] + 256 * CC(p).function.code[ip + 3],
     target |-> Target(CC(p).function, ip)]

InitEmit ==
    /\ source = <<>>
    /\ stack = <<>>
    /\ freezeGC = 1
    /\ result = [kind |-> "none", fn |-> <<>>]
    /\ caller = [stack |-> <<>>, freezeGC |-> 0]
    /\ pc = "emit"
    /\ ps = initParseState
    /\ applied = <<>>
    /\ state = newState

\* p is the parser before the call and q the parser after it
Patched(p, q, index) ==
    [fn |-> "patchJmp", index |-> index, location |-> 0,
     before |-> Outcome(p), after |-> Outcome(q), jump |-> JumpAt(q, index - 1)]

WrittenBack(p, q, location) ==
    [fn |-> "writeJmpBack", index |-> 0, location |-> location,
     before |-> Outcome(p), after |-> Outcome(q), jump |-> JumpAt(q, count(p))]

\* patchJmp(pstate, exitJump) at the end of an if statement, or of a loop
\* after its writeJmpBack(pstate, jumpLocation)
PatchJmp ==
    /\ pc = "emit"
    /\ \E before \in 0..MaxBefore, i \in {"OP_JMP", "OP_EJMP", "OP_PEJMP"},
          n \in BodySizes, back \in BOOLEAN :
          \E body \in {loopBody(before, i, n)} :
             \E p \in {IF back THEN writeJmpBack(body, 0) ELSE body} :
                applied' = Patched(p, patchJmp(p, body.ret), body.ret)
    /\ pc' = "emitted"
    /\ UNCHANGED <<source, caller, state, ps, stack, freezeGC, result>>

\* writeJmpBack(pstate, jumpLocation) at the end of the body of a loop
WriteJmpBack ==
    /\ pc = "emit"
    /\ \E before \in 0..MaxBefore, n \in BodySizes :
          \E location \in {0, before} :
             \E p \in {loopBody(before, "OP_PEJMP", n)} :
                applied' = WrittenBack(p, writeJmpBack(p, location), location)
    /\ pc' = "emitted"
    /\ UNCHANGED <<source, caller, state, ps, stack, freezeGC, result>>

\* the values of literals: numbers that are not in the pool, one that is, a
\* string
Literals == {newNumber(UINT16_MAX + 1 + k) : k \in 1..MaxMade}
            \cup {newNumber(1), newString(1)}

\* makeConstant for each of vals but the last
RECURSIVE makeConstants(_, _)
makeConstants(p, vals) ==
    IF Len(vals) <= 1 THEN p
    ELSE makeConstants(makeConstant(p, Head(vals)), Tail(vals))

\* the index that val has in the pool, or will have
IndexOf(constants, val) ==
    IF \E i \in 1..Len(constants) : constants[i] = val
    THEN (CHOOSE i \in 1..Len(constants) :
            constants[i] = val /\ \A j \in 1..(i - 1) : constants[j] # val) - 1
    ELSE Len(constants)

Made(p, q, val) ==
    [fn |-> "makeConstant", val |-> val,
     index |-> IndexOf(CC(p).function.constants, val),
     before |-> Outcome(p), after |-> Outcome(q),
     at |-> IF q.ret < Len(CC(q).function.constants)
            THEN CC(q).function.constants[q.ret + 1] ELSE NilValue,
     last |-> CC(q).function.constants[Len(CC(q).function.constants)]]

\* makeConstant(pstate, val) for the literals of a chunk whose pool is full,
\* or nearly so
MakeConstant ==
    /\ pc = "emit"
    /\ \E lacking \in 0..MaxLacking, m \in 1..MaxMade :
          \E vals \in [1..m -> Literals] :
             \E p \in {makeConstants(writePool(initParseState, (UINT16_MAX + 1) - lacking), vals)} :
                applied' = Made(p, makeConstant(p, vals[m]), vals[m])
    /\ pc' = "emitted"
    /\ UNCHANGED <<source, caller, state, ps, stack, freezeGC, result>>

NextEmit == PatchJmp \/ WriteJmpBack \/ MakeConstant

SpecEmit == InitEmit /\ [][NextEmit]_vars

(***************************************************************************)
(* Base library                                                            *)
(*                                                                         *)
(* The C functions of the base library, applied to a CState.  What the VM  *)
(* does for them (the stack, the globals table, errors) follows the        *)
(* embedding interface.                                                    *)
(***************************************************************************)
\* the longest string of a script and the greatest number beyond its length
MaxLen == 5
MaxBeyond == 1

\* the CState as the library functions see it: the stack is a part of it
CState(st, stk) ==
    [stack |-> stk, globals |-> st.globals, protoObjects |-> st.protoObjects,
     panic |-> st.panic, error |-> st.error, crashed |-> st.crashed,
     objects |-> st.objects]

StateOf(st) ==
    [globals |-> st.globals, protoObjects |-> st.protoObjects,
     panic |-> st.panic, error |-> st.error, crashed |-> st.crashed,
     objects |-> st.objects]

newCFunction(f) == [kind |-> "cfunction", val |-> f, fn |-> <<>>]
newObj(o) == [kind |-> "object", val |-> o, fn |-> <<>>]

IS_STRING(val) == val.kind = "string"
IS_NUMBER(val) == val.kind = "number"

cosmoV_pushString(st, str) == [st EXCEPT !.stack = Append(@, newString(str))]
cosmoV_pushCFunction(st, f) == [st EXCEPT !.stack = Append(@, newCFunction(f))]

\* what became of a read or write outside an object: a crash, or any string
Undefined(st) ==
    {[st EXCEPT !.crashed = TRUE]}
    \cup {[st EXCEPT !.stack = Append(@, newString(<<"?">>))]}

\* pushes the length bytes of str that start at offset start
cosmoV_pushLString(st, str, start, length) ==
    IF length < 0 \/ start + length > Len(str)
    THEN Undefined(st)
    ELSE {[st EXCEPT !.stack = Append(@, newString(SubSeq(str, start + 1, start + length)))]}

\* a runtime error: the call chain is abandoned
cosmoV_error(st, format) == [st EXCEPT !.panic = TRUE, !.error = format]

cosmoV_typeError(st, name) == cosmoV_error(st, name \o " expected (%s), got (%s)!")

\* the n name/value pairs on top of the stack
Pairs(st, n) ==
    [j \in 1..n |-> [key |-> st.stack[Len(st.stack) - 2 * (n - j) - 1].val,
                     val |-> st.stack[Len(st.stack) - 2 * (n - j)]]]

\* the table that maps each key of the pairs to its value, the last one
\* pushed if a key comes twice, and the keys of t that are not among them
\* to what they have in t
Assigned(t, pairs) ==
    [k \in DOMAIN t \cup {pairs[j].key : j \in DOMAIN pairs} |->
        IF \E j \in DOMAIN pairs : pairs[j].key = k
        THEN pairs[CHOOSE j \in DOMAIN pairs :
                      /\ pairs[j].key = k
                      /\ \A i \in DOMAIN pairs : pairs[i].key = k => i <= j].val
        ELSE t[k]]

Popped(st, n) == [st EXCEPT !.stack = SubSeq(@, 1, Len(@) - n)]

\* pops n name/value pairs and writes them into the globals table
cosmoV_register(st, n) ==
    [Popped(st, 2 * n) EXCEPT !.globals = Assigned(st.globals, Pairs(st, n))]

\* pops n key/value pairs, makes an object of them and pushes it
cosmoV_makeObject(st, n) ==
    [Popped(st, 2 * n) EXCEPT
        !.objects = Append(@, [proto |-> 0, fields |-> Assigned(<<>>, Pairs(st, n))]),
        !.stack = Append(@, newObj(Len(st.objects) + 1))]

cosmoV_registerProtoObject(st, kind, obj) ==
    [st EXCEPT !.protoObjects = Assigned(@, <<[key |-> kind, val |-> obj]>>)]

\* for (i = 0; i < count; i++) { push identifiers[i]; push functions[i]; }
RECURSIVE pushAll(_, _, _, _)
pushAll(st, names, functions, i) ==
    IF i >= Len(names) THEN st
    ELSE pushAll(cosmoV_pushCFunction(cosmoV_pushString(st, names[i + 1]),
                                      functions[i + 1]),
                 names, functions, i + 1)

strIdentifiers == <<"sub", "find", "split", "charAt">>

strLib == <<"cosmoB_sSub", "cosmoB_sFind", "cosmoB_sSplit", "cosmoB_sCharAt">>

\* the object of the string functions, left on the stack under its name
strLibObject(st) ==
    cosmoV_makeObject(pushAll(cosmoV_pushString(st, "string"), strIdentifiers, strLib, 0),
                      Len(strIdentifiers))

cosmoB_loadStrLib(st) ==
    cosmoV_register(
        cosmoV_registerProtoObject(strLibObject(st), "COBJ_STRING",
                                   Len(strLibObject(st).objects)),
        1)

\* the identifiers, had a comma stood after each
identifiersSeparated ==
    <<"print", "assert", "type", "pcall", "tonumber", "tostring", "loadstring">>

\* adjacent string literals are one string literal
identifiers ==
    <<"print",
      "assert",
      "type",
      "pcall",
      "tonumber",
      "tostring"
      \o "loadstring">>

baseLib ==
    <<"cosmoB_print",
      "cosmoB_assert",
      "cosmoB_type",
      "cosmoB_pcall",
      "cosmoB_tonumber",
      "cosmoB_tostring",
      "cosmoB_loadstring">>

cosmoB_loadLibrary(st) ==
    cosmoB_loadStrLib(
        cosmoV_register(pushAll(st, identifiers, baseLib, 0), Len(identifiers)))

\* what a C function leaves: the state, and the number of results it pushed
Returns(st, n) == [st |-> st, ret |-> n]

\* string.sub
cosmoB_sSub(st, nargs, args) ==
    IF nargs = 2
    THEN IF ~IS_STRING(args[1]) \/ ~IS_NUMBER(args[2])
         THEN {Returns(cosmoV_typeError(st, "string.sub()"), 0)}
         ELSE IF args[2].val < 0 \/ args[2].val >= Len(args[1].val)
              THEN {Returns(cosmoV_error(st,
                        "string.sub() expected index to be 0-%d, got %d!"), 0)}
              ELSE {Returns(q, 1) :
                       q \in cosmoV_pushLString(st, args[1].val, args[2].val,
                                                Len(args[1].val) - args[2].val)}
    ELSE IF nargs = 3
    THEN IF ~IS_STRING(args[1]) \/ ~IS_NUMBER(args[2]) \/ ~IS_NUMBER(args[3])
         THEN {Returns(cosmoV_typeError(st, "string.sub()"), 0)}
         ELSE IF \/ args[2].val + args[3].val < 0
                 \/ args[2].val + args[3].val >= Len(args[1].val)
                 \/ args[2].val < 0
                 \/ args[2].val >= Len(args[1].val)
              THEN {Returns(cosmoV_error(st,
                        "string.sub() expected subbed string goes out of bounds, max length is %d!"), 0)}
              ELSE {Returns(q, 1) :
                       q \in cosmoV_pushLString(st, args[1].val, args[2].val, args[3].val)}
    ELSE {Returns(cosmoV_error(st, "string.sub() expected 2 or 3 arguments, got %d!"), 0)}

cosmoB_dsetProto(st, nargs, args) ==
    IF nargs = 2
    THEN Returns([st EXCEPT !.objects[args[1].val].proto = args[2].val], 0)
    ELSE Returns(cosmoV_error(st, "Expected 2 arguments, got %d!"), 0)

cosmoV_pushNumber(st, n) == [st EXCEPT !.stack = Append(@, newNumber(n))]

\* pops n key/value pairs, makes a table of them and pushes it
cosmoV_makeTable(st, n) ==
    [Popped(st, 2 * n) EXCEPT
        !.stack = Append(@, [kind |-> "table", val |-> Assigned(<<>>, Pairs(st, n)),
                             fn |-> <<>>])]

\* ptrn stands in str at offset i
Occurs(str, i, ptrn) ==
    i + Len(ptrn) <= Len(str) /\ SubSeq(str, i + 1, i + Len(ptrn)) = ptrn

\* strstr(str->str + from, ptrn->str) for an offset from inside str->str,
\* the terminator included: the offset of the first occurrence, <<>> for NULL
strstr(str, from, ptrn) ==
    IF \E i \in from..Len(str) : Occurs(str, i, ptrn)
    THEN <<CHOOSE i \in from..Len(str) :
                /\ Occurs(str, i, ptrn)
                /\ \A j \in from..(i - 1) : ~Occurs(str, j, ptrn)>>
    ELSE <<>>

\* what a call of string.find has done: outside, that it read bytes that are
\* not of the string
Found(st, n, outside) == [st |-> st, ret |-> n, outside |-> outside]

\* what became of strstr from an address outside the string: a crash, no
\* match, or a match anywhere
OutsideRead(st) ==
    {Found([st EXCEPT !.crashed = TRUE], 0, TRUE), Found(st, 0, TRUE)}
    \cup {Found(cosmoV_pushNumber(st, n), 1, TRUE)
             : n \in (0 - MaxBeyond)..(MaxLen + MaxBeyond)}

\* string.find
cosmoB_sFind(st, nargs, args) ==
    IF nargs = 2
    THEN IF ~IS_STRING(args[1]) \/ ~IS_STRING(args[2])
         THEN {Found(cosmoV_typeError(st, "string.find()"), 0, FALSE)}
         ELSE IF strstr(args[1].val, 0, args[2].val) = <<>>
              THEN {Found(st, 0, FALSE)}
              ELSE {Found(cosmoV_pushNumber(st, strstr(args[1].val, 0, args[2].val)[1]),
                          1, FALSE)}
    ELSE IF nargs = 3
    THEN IF ~IS_STRING(args[1]) \/ ~IS_STRING(args[2]) \/ ~IS_NUMBER(args[3])
         THEN {Found(cosmoV_typeError(st, "string.find()"), 0, FALSE)}
         ELSE IF args[3].val < 0 \/ args[3].val > Len(args[1].val)
              THEN OutsideRead(st)
              ELSE IF strstr(args[1].val, args[3].val, args[2].val) = <<>>
                   THEN {Found(st, 0, FALSE)}
                   ELSE {Found(cosmoV_pushNumber(
                                   st, strstr(args[1].val, args[3].val, args[2].val)[1]),
                               1, FALSE)}
    ELSE {Found(cosmoV_error(st, "string.find() expected 2 or 3 arguments, got %d!"),
                0, FALSE)}

\* what a call of string.split has done: spin, that its loop began an
\* iteration in the state in which it had begun the one before
Split(st, n, spin) == [st |-> st, ret |-> n, spin |-> spin]

\* the do ... while (nIndx != NULL) loop of string.split, from the offset
\* indx with nEntries pieces pushed.  After the last iteration indx is
\* computed from NULL and never used.
RECURSIVE splitLoop(_, _, _, _, _)
splitLoop(st, str, ptrn, indx, nEntries) ==
    UNION {IF strstr(str, indx, ptrn) = <<>>
           THEN {Split(cosmoV_makeTable(q, nEntries + 1), 1, FALSE)}
           ELSE IF strstr(str, indx, ptrn)[1] + Len(ptrn) = indx
                THEN {Split(q, 0, TRUE)}
                ELSE splitLoop(q, str, ptrn, strstr(str, indx, ptrn)[1] + Len(ptrn),
                               nEntries + 1)
           : q \in cosmoV_pushLString(cosmoV_pushNumber(st, nEntries), str, indx,
                                      IF strstr(str, indx, ptrn) = <<>>
                                      THEN Len(str) - indx
                                      ELSE strstr(str, indx, ptrn)[1] - indx)}

\* string.split
cosmoB_sSplit(st, nargs, args) ==
    IF nargs # 2
    THEN {Split(cosmoV_error(st, "string.split() expected 2 arguments, got %d!"), 0, FALSE)}
    ELSE IF ~IS_STRING(args[1]) \/ ~IS_STRING(args[2])
         THEN {Split(cosmoV_typeError(st, "string.split()"), 0, FALSE)}
         ELSE splitLoop(st, args[1].val, args[2].val, 0, 0)

\* the strings and the numbers of a script
Letters == <<"h", "e", "l", "l", "o">>
Strings == {[j \in 1..k |-> Letters[((j - 1) % Len(Letters)) + 1]] : k \in 0..MaxLen}
Numbers == (0 - MaxBeyond)..(MaxLen + MaxBeyond)

InitLib ==
    /\ source = <<>>
    /\ ps = NoParseState
    /\ stack = <<>>
    /\ freezeGC = 0
    /\ result = [kind |-> "none", fn |-> <<>>]
    /\ caller = [stack |-> <<>>, freezeGC |-> 0]
    /\ pc = "idle"
    /\ applied = <<>>
    /\ state = newState

\* the embedder loads the base library into a state that has none
LoadLibrary ==
    /\ pc = "idle"
    /\ state.globals = <<>>
    /\ stack' = cosmoB_loadLibrary(CState(state, stack)).stack
    /\ state' = StateOf(cosmoB_loadLibrary(CState(state, stack)))
    /\ UNCHANGED <<source, pc, caller, applied, ps, freezeGC, result>>

\* the VM calls string.sub with the arguments of the script
SSub ==
    /\ pc = "idle"
    /\ \E nargs \in 1..3 :
          \E args \in [1..nargs -> {newString(str) : str \in Strings}
                                   \cup {newNumber(n) : n \in Numbers}
                                   \cup {NilValue}] :
             \E out \in cosmoB_sSub(CState(state, stack), nargs, args) :
                /\ stack' = out.st.stack
                /\ state' = StateOf(out.st)
                /\ applied' = [fn |-> "cosmoB_sSub", nargs |-> nargs,
                               args |-> args, ret |-> out.ret]
    /\ pc' = "called"
    /\ UNCHANGED <<source, caller, ps, freezeGC, result>>

\* the VM calls the __proto setter with the arguments of the script
DSetProto ==
    /\ pc = "idle"
    /\ \E nargs \in 1..3 :
          \E args \in [1..nargs -> {newObj(o) : o \in DOMAIN state.objects}] :
             /\ stack' = cosmoB_dsetProto(CState(state, stack), nargs, args).st.stack
             /\ state' = StateOf(cosmoB_dsetProto(CState(state, stack), nargs, args).st)
             /\ applied' = [fn |-> "cosmoB_dsetProto", nargs |-> nargs, args |-> args,
                            ret |-> cosmoB_dsetProto(CState(state, stack), nargs, args).ret]
    /\ pc' = "called"
    /\ UNCHANGED <<source, caller, ps, freezeGC, result>>

\* what a script searches for, and splits at
Patterns == {<<>>, <<"l">>, <<"l", "l">>, <<"l", "o">>, <<"h">>, <<"x">>}

\* the VM calls string.find with the arguments of the script: a string or
\* nil, a pattern or a number, a number or nil, and one argument too many
SFind ==
    /\ pc = "idle"
    /\ \E nargs \in 1..4 :
          \E str \in {newString(t) : t \in Strings} \cup {NilValue} :
             \E ptrn \in {newString(t) : t \in Patterns} \cup {newNumber(0)} :
                \E n \in {newNumber(m) : m \in Numbers} \cup {NilValue} :
                   \E out \in cosmoB_sFind(CState(state, stack), nargs,
                                           SubSeq(<<str, ptrn, n, NilValue>>, 1, nargs)) :
                      /\ stack' = out.st.stack
                      /\ state' = StateOf(out.st)
                      /\ applied' = [fn |-> "cosmoB_sFind", nargs |-> nargs,
                                     args |-> SubSeq(<<str, ptrn, n, NilValue>>, 1, nargs),
                                     ret |-> out.ret, outside |-> out.outside]
    /\ pc' = "called"
    /\ UNCHANGED <<source, caller, ps, freezeGC, result>>

\* the VM calls string.split with the arguments of the script; a call whose
\* loop never ends does not return
SSplit ==
    /\ pc = "idle"
    /\ \E nargs \in 1..3 :
          \E str \in {newString(t) : t \in Strings} \cup {NilValue} :
             \E ptrn \in {newString(t) : t \in Patterns} \cup {newNumber(0)} :
                \E out \in cosmoB_sSplit(CState(state, stack), nargs,
                                         SubSeq(<<str, ptrn, NilValue>>, 1, nargs)) :
                   /\ stack' = out.st.stack
                   /\ state' = StateOf(out.st)
                   /\ applied' = [fn |-> "cosmoB_sSplit", nargs |-> nargs,
                                  args |-> SubSeq(<<str, ptrn, NilValue>>, 1, nargs),
                                  ret |-> out.ret]
                   /\ pc' = IF out.spin THEN "spinning" ELSE "called"
    /\ UNCHANGED <<source, caller, ps, freezeGC, result>>

\* the protected call takes the results, or the error, and the script goes on
Unwind ==
    /\ pc = "called"
    /\ ~state.crashed
    /\ pc' = "idle"
    /\ stack' = <<>>
    /\ state' = [state EXCEPT !.panic = FALSE, !.error = ""]
    /\ applied' = <<>>
    /\ UNCHANGED <<source, caller, ps, freezeGC, result>>

NextLib == LoadLibrary \/ SSub \/ DSetProto \/ SFind \/ SSplit \/ Unwind

SpecLib == InitLib /\ [][NextLib]_vars

(***************************************************************************)
(* Properties                                                              *)
(***************************************************************************)
\* the function of the script, which the compiler at level 1 builds
Script(p) == p.compilers[1].function

\* the parser is between two statements of the script and has reported nothing
BetweenStatements ==
    pc = "compiling" /\ ps.frames = <<>> /\ ~ps.hadError /\ ~ps.undefined

\* C1: every return of cosmoP_compileString has pushed exactly one value on
\* the stack of the embedder, on top of what the stack held at the call: with
\* no diagnostic written, the closure of the root function, which is also the
\* function returned; with a diagnostic written, nil, and NULL is returned.
C1_OneValuePushed ==
    pc = "done" =>
        /\ Len(stack) = Len(caller.stack) + 1
        /\ SubSeq(stack, 1, Len(caller.stack)) = caller.stack
        /\ IF ps.diagnostics = <<>>
           THEN /\ result = [kind |-> "function", fn |-> <<ps.ret>>]
                /\ stack[Len(stack)] = ClosureValue(ps.ret)
           ELSE /\ result = [kind |-> "NULL", fn |-> <<>>]
                /\ stack[Len(stack)] = NilValue

\* a failed compilation has returned to a caller whose stack was not empty
C1_ReturnedAfterError ==
    /\ pc = "done"
    /\ ps.diagnostics # <<>>
    /\ caller.stack # <<>>
    /\ stack = Append(caller.stack, NilValue)
    /\ result.kind = "NULL"

\* C2: pushedValues is the net number of values that the instructions emitted
\* so far leave on the operand stack, the declared locals not counted.  Stated
\* between the statements of the script: the code emitted so far, run from an
\* empty stack, ends with the locals of the script (slot 0 aside) and
\* pushedValues more values on it.
C2_PushedIsStackHeight ==
    BetweenStatements =>
        Heights(Script(ps), 0).final
            = <<(ps.compilers[1].localCount - 1) + ps.compilers[1].pushedValues>>

\* C3: a statement that was compiled without an error leaves pushedValues as
\* it found it, whatever its form and wherever it is nested.
C3_StatementsKeepPushed ==
    \A r \in ps.log : ~r.hadError => r.after = r.before

\* a script with a valid loop and a valid statement nested in a block
C3_NestedStatements ==
    /\ pc = "done"
    /\ \E r \in ps.log : r.form \in {"while", "for", "for in"} /\ ~r.hadError
    /\ \E r \in ps.log : r.form = "local" /\ r.scopeDepth > 0 /\ ~r.hadError
    /\ \E r \in ps.log : r.before > 0 /\ ~r.hadError

\* the statements that open a block scope
ScopeForms == {"do", "if", "while", "for", "for in"}

\* C4: the operand stack is as tall after a scope as before it.  Stated for
\* the statements of the script that open a scope and compiled without an
\* error: the emitted code reaches the end of the statement with the height
\* it reached its start with.
C4_ScopesKeepHeight ==
    (pc = "compiling" /\ ~ps.hadError /\ ~ps.undefined) =>
        \A r \in ps.log :
            (r.level = 1 /\ r.form \in ScopeForms /\ ~r.hadError) =>
                /\ Heights(Script(ps), 0).at[r.from + 1] # <<>>
                /\ Heights(Script(ps), 0).at[r.to + 1]
                        = Heights(Script(ps), 0).at[r.from + 1]

\* C5: a name resolves to the local of the current function if there is one,
\* else to an upvalue if a function around it has such a local, else to a
\* global; the operand emitted for a local or an upvalue denotes the variable
\* that the name stands for by lexical scoping, that variable is marked
\* captured when it is reached as an upvalue, and resolving the name again
\* gives the same upvalue index.
C5_NamesResolveLexically ==
    \A r \in ps.resolved :
        /\ r.kind = "LOCAL" <=> r.lexical.level = r.level
        /\ r.kind = "UPVAL" <=> r.lexical.level \in 1..(r.level - 1)
        /\ r.kind = "GLOBAL" <=> r.lexical.level = 0
        /\ r.kind \in {"LOCAL", "UPVAL"} => r.denotes = r.lexical
        /\ r.kind = "UPVAL" => r.captured /\ r.again = r.arg

\* the tokens that end a statement, TOKEN_EOF aside
Terminators == {"EOS", "END", "ELSE", "ELSEIF"}

\* C6: a parser that panics skips tokens up to the next statement terminator
\* and no further: of the tokens one call of synchronize skips, only the last
\* can be a terminator.
C6_SkipsToNextTerminator ==
    \A r \in ps.resync :
        \A j \in 1..(Len(r.skipped) - 1) : r.skipped[j] \notin Terminators

\* C7: every error met while the parser is not panicking writes a diagnostic,
\* so a source has as many diagnostics as it has erroneous statements.
C7_OneDiagnosticPerError == Len(ps.diagnostics) = ps.raised

\* C8: the GC freeze count is one above the caller's, and so positive, from
\* the start of compilation to its return, and is the caller's again after
\* the return, on the success path and on the error path.
C8_FrozenWhileCompiling ==
    /\ pc \in {"compiling", "spinning", "aborted"} =>
            freezeGC = caller.freezeGC + 1 /\ freezeGC > 0
    /\ pc \in {"idle", "done"} => freezeGC = caller.freezeGC

\* a successful compilation has returned to a caller that had frozen the GC
C8_ReturnedToFrozenCaller ==
    /\ pc = "done"
    /\ result.kind = "function"
    /\ caller.freezeGC > 0
    /\ freezeGC = caller.freezeGC

\* C9: no function ever has more than 256 upvalues, no entry is written
\* beyond upvalues[255], and no upvalue index above 255 is emitted.
C9_UpvaluesWithinCapacity ==
    /\ \A level \in 1..Len(ps.compilers) :
            /\ ps.compilers[level].function.upvals <= UpvaluesCapacity
            /\ Len(ps.compilers[level].upvalues) <= UpvaluesCapacity
    /\ \A r \in ps.resolved : r.kind = "UPVAL" => r.arg <= UINT8_MAX

\* the diagnostic of addLocal
TooManyLocals ==
    [msg |-> "UInt overflow! Too many locals in scope!", at |-> "IDENTIFIER"]

RECURSIVE DeclaredNames(_)
DeclaredNames(j) ==
    IF j + 1 <= Len(source) /\ source[j + 1].type = "COMMA"
    THEN 1 + DeclaredNames(j + 2)
    ELSE 1

\* the step compiles a whole var or local declaration of the script, and
\* reports nothing
DeclarationStep ==
    /\ pc = "compiling" /\ pc' = "compiling"
    /\ ps.frames = <<>> /\ ps'.frames = <<>>
    /\ StatementForm(ps) \in {"var", "local"}
    /\ ~ps.hadError /\ ~ps'.hadError
    /\ ~ps.undefined /\ ~ps'.undefined

\* what the step of a declaration leaves: pushedValues as it was, and for a
\* local declaration as many new locals and new values on the stack as it
\* has names, for a var declaration of the script the stack as high as it
\* was and one OP_SETGLOBAL for each name at the end of the code
DeclarationLeaves ==
    /\ CC(ps').pushedValues = CC(ps).pushedValues
    /\ Heights(Script(ps), 0).final # <<>>
    /\ IF StatementForm(ps) = "local"
       THEN /\ CC(ps').localCount = CC(ps).localCount + DeclaredNames(ps.pos)
            /\ Heights(Script(ps'), 0).final
                  = <<Heights(Script(ps), 0).final[1] + DeclaredNames(ps.pos)>>
       ELSE /\ CC(ps').localCount = CC(ps).localCount
            /\ Heights(Script(ps'), 0).final = Heights(Script(ps), 0).final
            /\ \A j \in 1..DeclaredNames(ps.pos) :
                  Script(ps').code[count(ps') - 3 * j + 1] = "OP_SETGLOBAL"

\* C11: a var or local declaration of k names, whatever follows its '=',
\* leaves pushedValues as it found it and emits code that leaves exactly k
\* values for its k variables, padding with NIL the values that are missing
\* and popping those in excess.
C11_DeclarationLeavesItsVariables == [][DeclarationStep => DeclarationLeaves]_vars

INC == {"OP_INCLOCAL", "OP_INCUPVAL", "OP_INCGLOBAL", "OP_INCOBJECT", "OP_INCINDEX"}

\* the offsets of the instructions of f from offset ip up to offset to
RECURSIVE InstructionsFrom(_, _, _)
InstructionsFrom(f, ip, to) ==
    IF ip >= to THEN {} ELSE {ip} \cup InstructionsFrom(f, After(f, ip), to)

\* the tokens of the statement that the step compiles, and its ++ and --
StatementTokens == (ps.pos - 1)..(ps'.pos - 2)

IncrementTokens ==
    {j \in StatementTokens : source[j].type \in {"PLUS_PLUS", "MINUS_MINUS"}}

\* the step compiles, without an error, a statement of the function that is
\* open which has one ++ or -- and no function in it
IncrementStep ==
    /\ pc = "compiling" /\ pc' = "compiling"
    /\ ps'.frames = ps.frames
    /\ ~ps.hadError /\ ~ps'.hadError
    /\ ~ps.undefined /\ ~ps'.undefined
    /\ Cardinality(IncrementTokens) = 1
    /\ \A j \in StatementTokens : source[j].type # "FUNCTION"

\* the value that the ++ or -- of the statement adds
Delta ==
    IF \E j \in IncrementTokens : source[j].type = "PLUS_PLUS" THEN 1 ELSE -1

\* the ++ or -- of the statement stands after its operand: after a name or
\* after the ']' of an index
Postfix ==
    \E j \in IncrementTokens :
        j - 1 \in StatementTokens /\ source[j - 1].type \in {"IDENTIFIER", "RIGHT_BRACKET"}

\* the instruction after the one at offset i of f loads delta, and OP_ADD
\* follows it
AddFollows(f, i, delta) ==
    /\ After(f, i) + 4 <= Len(f.code)
    /\ f.code[After(f, i) + 1] = "OP_LOADCONST"
    /\ f.constants[f.code[After(f, i) + 2] + 256 * f.code[After(f, i) + 3] + 1]
            = newNumber(delta)
    /\ f.code[After(f, i) + 4] = "OP_ADD"

\* the INC* instructions that the step has emitted
Increments ==
    {i \in InstructionsFrom(CC(ps').function, count(ps), count(ps')) :
        CC(ps').function.code[i + 1] \in INC}

\* C12 as stated: every increment form emits an INC* instruction with the
\* operand 128 + delta, and LOADCONST delta, OP_ADD follow that instruction
\* exactly for the postfix forms x++ and x--.
C12_PostfixAddsDelta ==
    [][IncrementStep =>
        /\ Increments # {}
        /\ \A i \in Increments :
              /\ CC(ps').function.code[i + 2] = 128 + Delta
              /\ AddFollows(CC(ps').function, i, Delta) <=> Postfix]_vars

\* C12, amended: every increment form emits an INC* instruction with the
\* operand 128 + delta, and LOADCONST delta, OP_ADD follow that instruction
\* exactly for the prefix forms ++x and --x; nothing is added after x++, x--.
C12_PrefixAddsDelta ==
    [][IncrementStep =>
        /\ Increments # {}
        /\ \A i \in Increments :
              /\ CC(ps').function.code[i + 2] = 128 + Delta
              /\ AddFollows(CC(ps').function, i, Delta) <=> ~Postfix]_vars

\* the script is --t.a and t[0]-- : OP_INCOBJECT 127 with the addition of -1
\* after it, and OP_INCINDEX 127 with nothing but the OP_POP of the statement
C12_BothForms ==
    /\ pc = "compiling"
    /\ ~ps.hadError
    /\ source = Text(<<"MINUS_MINUS", "t", "DOT", "a",
                       "t", "LEFT_BRACKET", "0", "RIGHT_BRACKET", "MINUS_MINUS">>)
    /\ check(ps, "EOF")
    /\ Script(ps).code
         = <<"OP_GETGLOBAL", 0, 0, "OP_INCOBJECT", 127, 1, 0, "OP_LOADCONST", 2, 0, "OP_ADD",
             "OP_POP", 1,
             "OP_GETGLOBAL", 0, 0, "OP_LOADCONST", 3, 0, "OP_INCINDEX", 127, "OP_POP", 1>>


\* the constructs that are open after a token of the given type, when those
\* in st were open before it: 'while' and 'for' open the head of a loop, whose
\* 'do' opens the loop; every other 'do', 'if' and 'proto' open a block,
\* 'function' a function, and 'end' closes the innermost construct
Open(st, type) ==
    CASE type \in {"WHILE", "FOR"} -> Append(st, "loop head")
      [] type = "DO" ->
            IF st # <<>> /\ st[Len(st)] = "loop head"
            THEN [st EXCEPT ![Len(st)] = "loop"]
            ELSE Append(st, "block")
      [] type \in {"IF", "PROTO"} -> Append(st, "block")
      [] type = "FUNCTION" -> Append(st, "function")
      [] type = "END" -> IF st = <<>> THEN st ELSE SubSeq(st, 1, Len(st) - 1)
      [] OTHER -> st

\* the constructs of the source that token j is written in, outermost first
RECURSIVE Nesting(_)
Nesting(j) == IF j <= 1 THEN <<>> ELSE Open(Nesting(j - 1), source[j - 1].type)

\* a loop is open in st, and no function inside that loop
OwnLoop(st) ==
    \E i \in 1..Len(st) : st[i] = "loop" /\ \A k \in (i + 1)..Len(st) : st[k] # "function"

NoLoopMessage(form) ==
    [msg |-> "'" \o form \o "' cannot be used outside of a loop body!",
     at |-> IF form = "break" THEN "BREAK" ELSE "CONTINUE"]

\* the break and continue statements compiled while nothing had been
\* reported, that are written in no loop of their function
StrayJumps ==
    {r \in ps.log : /\ r.form \in {"break", "continue"}
                    /\ r.clean
                    /\ ~OwnLoop(Nesting(r.at))}

\* C13: a break or continue written in no loop of the function being
\* compiled, be it in a function that is itself written inside a loop, is
\* reported as an error, and no instruction is emitted for it.
C13_StrayJumpsRefused ==
    ~ps.undefined =>
        \A r \in StrayJumps :
            /\ r.hadError
            /\ ps.diagnostics # <<>> /\ ps.diagnostics[1] = NoLoopMessage(r.form)
            /\ r.to = r.from

\* a break in a function that is declared inside a while loop was refused
C13_RefusedInNestedFunction ==
    /\ pc = "done"
    /\ \E r \in StrayJumps :
          /\ r.form = "break"
          /\ r.level = 2
          /\ \E i \in 1..Len(Nesting(r.at)) : Nesting(r.at)[i] = "loop"
    /\ ps.diagnostics = <<NoLoopMessage("break")>>


InvalidAssignment == [msg |-> "Invalid assignment!", at |-> "EQUAL"]

Instruction(op, n) == [op |-> op, n |-> n]

InstructionAt(f, ip) ==
    Instruction(f.code[ip + 1],
                CASE f.code[ip + 1] = "OP_GETGLOBAL" ->
                        f.constants[f.code[ip + 2] + 256 * f.code[ip + 3] + 1].val
                  [] f.code[ip + 1] = "OP_CONCAT" -> f.code[ip + 2]
                  [] OTHER -> 0)

\* the instructions of f from offset ip on, in their order
RECURSIVE Decode(_, _)
Decode(f, ip) ==
    IF ip >= Len(f.code) THEN <<>>
    ELSE <<InstructionAt(f, ip)>> \o Decode(f, After(f, ip))

\* the levels of the binary operators, lowest first: concat, or, and,
\* equality, comparison, term, factor
Level(type) ==
    CASE type = "DOT_DOT" -> 1
      [] type = "OR" -> 2
      [] type = "AND" -> 3
      [] type \in {"EQUAL_EQUAL", "BANG_EQUAL"} -> 4
      [] type \in {"LESS", "GREATER", "LESS_EQUAL", "GREATER_EQUAL"} -> 5
      [] type \in {"PLUS", "MINUS"} -> 6
      [] type \in {"STAR", "SLASH", "PERCENT"} -> 7
      [] OTHER -> 0

\* the places of the binary operators of the expression ts: an operator
\* token that stands after an operand
BinaryAt(ts) ==
    {j \in 2..Len(ts) : Level(ts[j].type) > 0
                        /\ ts[j - 1].type \in {"IDENTIFIER", "RIGHT_PAREN"}}

\* the operator that is applied last when operators of a higher level bind
\* first and those of one level associate to the left: the last one of the
\* lowest level
AppliedLast(ts) ==
    CHOOSE j \in BinaryAt(ts) :
        \A k \in BinaryAt(ts) :
            \/ Level(ts[k].type) > Level(ts[j].type)
            \/ Level(ts[k].type) = Level(ts[j].type) /\ k <= j

\* the instructions of an operand: the name, the call after it, and then the
\* unary operators before it, the innermost first
RECURSIVE OperandCode(_)
OperandCode(ts) ==
    CASE ts[1].type = "MINUS" -> OperandCode(Tail(ts)) \o <<Instruction("OP_NEGATE", 0)>>
      [] ts[1].type = "BANG" -> OperandCode(Tail(ts)) \o <<Instruction("OP_NOT", 0)>>
      [] OTHER -> <<Instruction("OP_GETGLOBAL", ts[1].name)>>
                  \o (IF Len(ts) > 1 THEN <<Instruction("OP_CALL", 0)>> ELSE <<>>)

\* the instruction of a binary operator
OperatorCode(type) ==
    CASE type = "DOT_DOT" -> <<Instruction("OP_CONCAT", 2)>>
      [] type = "EQUAL_EQUAL" -> <<Instruction("OP_EQUAL", 0)>>
      [] type = "BANG_EQUAL" -> <<Instruction("OP_EQUAL", 0), Instruction("OP_NOT", 0)>>
      [] type = "LESS" -> <<Instruction("OP_LESS", 0)>>
      [] type = "PLUS" -> <<Instruction("OP_ADD", 0)>>
      [] type = "MINUS" -> <<Instruction("OP_SUB", 0)>>
      [] type = "STAR" -> <<Instruction("OP_MULT", 0)>>

\* the instructions of an operator applied to l and r: after both for an
\* operator that computes, between them for 'and' and 'or', which jump over r
Applied(type, l, r) ==
    CASE type = "AND" -> l \o <<Instruction("OP_EJMP", 0), Instruction("OP_POP", 0)>> \o r
      [] type = "OR" ->
            l \o <<Instruction("OP_EJMP", 0), Instruction("OP_JMP", 0),
                   Instruction("OP_POP", 0)>> \o r
      [] OTHER -> l \o r \o OperatorCode(type)

\* the instructions of the expression ts parsed by precedence, every level
\* associating to the left
RECURSIVE LeftParse(_)
LeftParse(ts) ==
    IF BinaryAt(ts) = {} THEN OperandCode(ts)
    ELSE Applied(ts[AppliedLast(ts)].type,
                 LeftParse(SubSeq(ts, 1, AppliedLast(ts) - 1)),
                 LeftParse(SubSeq(ts, AppliedLast(ts) + 1, Len(ts))))

\* the places of the '..' of the expression ts
ConcatAt(ts) == {j \in BinaryAt(ts) : ts[j].type = "DOT_DOT"}

FirstConcat(ts) == CHOOSE j \in ConcatAt(ts) : \A k \in ConcatAt(ts) : j <= k

\* the same parse, but that the operands of a chain of '..' are joined by one
\* OP_CONCAT that counts them
RECURSIVE ChainParse(_)
RECURSIVE ChainOperands(_)
ChainParse(ts) ==
    IF BinaryAt(ts) = {} THEN OperandCode(ts)
    ELSE IF ConcatAt(ts) # {}
    THEN ChainOperands(ts) \o <<Instruction("OP_CONCAT", Cardinality(ConcatAt(ts)) + 1)>>
    ELSE Applied(ts[AppliedLast(ts)].type,
                 ChainParse(SubSeq(ts, 1, AppliedLast(ts) - 1)),
                 ChainParse(SubSeq(ts, AppliedLast(ts) + 1, Len(ts))))

ChainOperands(ts) ==
    IF ConcatAt(ts) = {} THEN ChainParse(ts)
    ELSE ChainParse(SubSeq(ts, 1, FirstConcat(ts) - 1))
         \o ChainOperands(SubSeq(ts, FirstConcat(ts) + 1, Len(ts)))

\* the code is that of the expression, and nothing but instructions that pop
\* follows it
Computes(code, expr) ==
    /\ Len(code) >= Len(expr)
    /\ SubSeq(code, 1, Len(expr)) = expr
    /\ \A j \in (Len(expr) + 1)..Len(code) : code[j].op = "OP_POP"

\* the statement local x = <expression> has been compiled
ExpressionCompiled ==
    pc = "compiling" /\ check(ps, "EOF") /\ source \in ExpressionSources

\* the expression of that statement
Written == SubSeq(source, 4, Len(source))

\* C15 as stated: the instructions emitted for an expression are those of its
\* parse by precedence (concat < or < and < equality < comparison < term <
\* factor < unary < call) with every level associating to the left.
C15_LeftAssociative ==
    ExpressionCompiled =>
        ~ps.hadError /\ Computes(Decode(Script(ps), 0), LeftParse(Written))

\* C15, amended: the instructions emitted for an expression are those of its
\* parse by precedence with every level associating to the left, but that a
\* chain x .. y .. z is one operator of many operands: its operands are
\* followed by a single OP_CONCAT with their number.
C15_PrecedenceOrder ==
    ExpressionCompiled =>
        ~ps.hadError /\ Computes(Decode(Script(ps), 0), ChainParse(Written))

\* local x = a + b * c - d: the product first, then the sum, then the
\* difference
C15_ProductBeforeSum ==
    /\ ExpressionCompiled
    /\ source = Text(<<"LOCAL", "x", "EQUAL", "a", "PLUS", "b", "STAR", "c", "MINUS", "d">>)
    /\ Decode(Script(ps), 0)
         = <<Instruction("OP_GETGLOBAL", 1), Instruction("OP_GETGLOBAL", 2),
             Instruction("OP_GETGLOBAL", 3), Instruction("OP_MULT", 0),
             Instruction("OP_ADD", 0), Instruction("OP_GETGLOBAL", 4),
             Instruction("OP_SUB", 0)>>


\* the call reported msg: the compilation has failed, and msg is what the
\* user reads unless an earlier error was reported already
Reported(msg) ==
    /\ applied.after.hadError
    /\ ~applied.before.hadError =>
          applied.after.diagnostics = <<[msg |-> msg, at |-> ps.previous.type]>>

\* the call reported nothing
Quiet ==
    /\ applied.after.hadError = applied.before.hadError
    /\ applied.after.diagnostics = applied.before.diagnostics

TooMuchCode == "UInt overflow! Too much code to jump!"

\* patchJmp has run on the jump that writeJmp wrote
Forward == pc = "emitted" /\ applied.fn = "patchJmp"

\* writeJmpBack has run
Backward == pc = "emitted" /\ applied.fn = "writeJmpBack"

\* the bytes from the end of the forward jump to the end of the code, and
\* from the recorded offset to the end of the backward jump
ForwardDistance == applied.before.count - (applied.index + 2)
BackwardDistance == (applied.before.count + 3) - applied.location

\* C16: a forward jump that patchJmp patches and a backward jump that
\* writeJmpBack writes are reported as a compile error when they span more
\* than 65535 bytes; otherwise nothing is reported, the operand is the exact
\* distance, the forward jump goes to the end of the code as it is when the
\* jump is patched and the backward jump goes to the recorded offset.
C16_JumpDistanceChecked ==
    /\ Forward =>
          IF ForwardDistance > UINT16_MAX
          THEN Reported(TooMuchCode)
          ELSE /\ Quiet
               /\ applied.jump.operand = ForwardDistance
               /\ applied.jump.target = applied.after.count
               /\ applied.after.count = applied.before.count
    /\ Backward =>
          IF BackwardDistance > UINT16_MAX
          THEN Reported(TooMuchCode)
          ELSE /\ Quiet
               /\ applied.jump.operand = BackwardDistance
               /\ applied.jump.target = applied.location
               /\ applied.after.count = applied.before.count + 3

\* a forward jump over exactly 65535 bytes was patched without an error
C16_LongestForwardJump ==
    /\ Forward
    /\ ~applied.after.hadError
    /\ ForwardDistance = UINT16_MAX
    /\ applied.jump.operand = UINT16_MAX
    /\ applied.jump.target = applied.after.count


TooManyConstants == "UInt overflow! Too many constants in one chunk!"

\* makeConstant has run on applied.val
Constant == pc = "emitted" /\ applied.fn = "makeConstant"

\* C17: makeConstant returns the index that the constant has in the pool,
\* or gets at its end, and reports nothing when that index is at most 65535;
\* it reports too many constants in one chunk and returns 0 when the index
\* is 65536 or more.
C17_PoolCapacity ==
    Constant =>
        IF applied.index <= UINT16_MAX
        THEN /\ Quiet
             /\ applied.after.ret = applied.index
             /\ applied.at = applied.val
             /\ applied.after.constants =
                   IF applied.index = applied.before.constants
                   THEN applied.before.constants + 1
                   ELSE applied.before.constants
        ELSE /\ Reported(TooManyConstants)
             /\ applied.after.ret = 0

\* the pool held 65536 constants, the last of them accepted at index 65535,
\* and the next one was refused
C17_TheOneTooMany ==
    /\ Constant
    /\ applied.index = UINT16_MAX + 1
    /\ applied.before.constants = UINT16_MAX + 1
    /\ applied.before.ret = UINT16_MAX
    /\ ~applied.before.hadError
    /\ applied.last = applied.val
    /\ applied.after.ret = 0
    /\ applied.after.diagnostics = <<[msg |-> TooManyConstants, at |-> ps.previous.type]>>


\* the call of the setter that has just returned was given object and proto
SetterCalled ==
    /\ pc = "idle"
    /\ pc' = "called"
    /\ applied'.fn = "cosmoB_dsetProto"
    /\ applied'.nargs = 2

\* following prototypes from object from, at most steps times, comes to to
RECURSIVE OnChain(_, _, _, _)
OnChain(objects, from, to, steps) ==
    /\ from # 0
    /\ \/ from = to
       \/ steps > 0 /\ OnChain(objects, objects[from].proto, to, steps - 1)

\* the prototype would close a chain through the object it is given to
ClosesCycle(objects, obj, proto) == OnChain(objects, proto, obj, Len(objects))

\* C18: the __proto setter, given an object and a prototype whose chain
\* leads back to the object (or that is the object), raises a runtime error
\* and leaves the prototype of the object as it was.
C18_CycleRefused ==
    [][(SetterCalled /\ ClosesCycle(state.objects, applied'.args[1].val,
                                    applied'.args[2].val))
          => /\ state'.panic
             /\ state'.objects = state.objects]_vars


\* string.sub has returned from a call with a string and numbers
SubCalled ==
    /\ pc = "called"
    /\ applied.fn = "cosmoB_sSub"
    /\ applied.nargs \in {2, 3}
    /\ IS_STRING(applied.args[1])
    /\ \A j \in 2..applied.nargs : IS_NUMBER(applied.args[j])

SubOf == applied.args[1].val
SubFrom == applied.args[2].val
SubLength == IF applied.nargs = 3 THEN applied.args[3].val ELSE Len(SubOf) - SubFrom

SubInside ==
    IF applied.nargs = 2
    THEN SubFrom >= 0 /\ SubFrom < Len(SubOf)
    ELSE SubFrom >= 0 /\ SubLength >= 0 /\ SubFrom + SubLength <= Len(SubOf)

\* C19: string.sub called with a string and one or two numbers pushes the
\* requested bytes as its one result when the range is inside the string
\* (from i to the end for 0 <= i < length; n bytes from i for i >= 0,
\* n >= 0, i + n <= length), and raises a runtime error, pushing nothing,
\* when it is not.
C19_SubReturnsRange ==
    SubCalled =>
        IF SubInside
        THEN /\ applied.ret = 1
             /\ ~state.panic
             /\ ~state.crashed
             /\ stack = <<newString(SubSeq(SubOf, SubFrom + 1, SubFrom + SubLength))>>
        ELSE /\ applied.ret = 0
             /\ state.panic
             /\ ~state.crashed
             /\ stack = <<>>


CFunctionNames == {n \in DOMAIN state.globals : state.globals[n].kind = "cfunction"}

\* C20: the identifier array of cosmoB_loadLibrary has six entries, the last
\* of them "tostringloadstring"; once the library is loaded the globals that
\* are C functions are those six names, "tostringloadstring" is
\* cosmoB_tostring, neither "tostring" nor "loadstring" is a global, and no
\* global is cosmoB_loadstring.
C20_SixGlobals ==
    /\ Len(identifiers) = 6
    /\ identifiers[Len(identifiers)] = "tostringloadstring"
    /\ DOMAIN state.globals # {} =>
          /\ CFunctionNames = {"print", "assert", "type", "pcall", "tonumber",
                               "tostringloadstring"}
          /\ state.globals["tostringloadstring"] = newCFunction("cosmoB_tostring")
          /\ "tostring" \notin DOMAIN state.globals
          /\ "loadstring" \notin DOMAIN state.globals
          /\ \A n \in DOMAIN state.globals :
                state.globals[n] # newCFunction("cosmoB_loadstring")

\* the library is loaded, and a script has called a function since
C20_LibraryLoaded ==
    /\ "print" \in DOMAIN state.globals
    /\ "string" \in DOMAIN state.globals
    /\ pc = "called"


\* the expression holds an and or an or
ShortCircuits(ts) == \E j \in DOMAIN ts : ts[j].type \in {"AND", "OR"}

\* the last instruction of the code of f
LastInstruction(f) == Decode(f, 0)[Len(Decode(f, 0))]

\* C21: the code emitted for an initializer with and / or leaves one value on
\* the stack on the path that jumps and on the path that falls through, the
\* value that becomes the local, and no OP_POP follows the place the jump
\* goes to.
C21_ShortCircuitLeavesOneValue ==
    (ExpressionCompiled /\ ShortCircuits(Written)) =>
        /\ ~ps.hadError
        /\ Heights(Script(ps), 0).ok
        /\ Heights(Script(ps), 0).final = <<1>>
        /\ ps.compilers[1].localCount - 1 = 1
        /\ ps.compilers[1].pushedValues = 0
        /\ LastInstruction(Script(ps)).op # "OP_POP"


\* the breaks and continues, the patches of endLoop and the loops that the
\* compilation has recorded
JumpsOf(form) == {j \in DOMAIN ps.jumps : ps.jumps[j].form = form}

\* the loops around the break or continue j: those whose tokens hold it
Around(j) ==
    {l \in DOMAIN ps.loops :
        ps.loops[l].from < ps.jumps[j].pos /\ ps.jumps[j].pos <= ps.loops[l].to}

\* the loop of the break or continue j: the innermost of them
LoopOfJump(j) ==
    ps.loops[CHOOSE l \in Around(j) : \A m \in Around(j) : ps.loops[m].from <= ps.loops[l].from]

\* the patches of the jump j: those of its operand, in its function, made
\* after it was written and no later than the end of the loops around it
PatchesOf(j) ==
    {k \in DOMAIN ps.patches :
        /\ ps.patches[k].index = ps.jumps[j].index
        /\ ps.patches[k].level = ps.jumps[j].level
        /\ ps.patches[k].pos >= ps.jumps[j].pos
        /\ \E l \in Around(j) : ps.patches[k].pos <= ps.loops[l].to}

\* where a forward jump with that operand goes, and a backward one: the
\* operand is counted from the end of the instruction
Forwards(index, operand) == index + 2 + operand
Backwards(index, operand) == index + 2 - operand

\* C22: every break of a loop has written an OP_JMP that is patched once,
\* when its loop ends, to go to the offset after the closing OP_JMPBACK of
\* that loop, where the exit jump of the loop goes too; no break keeps the
\* operand 0xFFFF.
C22_BreaksPatchedAtLoopEnd ==
    \A j \in JumpsOf("break") :
        /\ Around(j) # {}
        /\ ps.jumps[j].op = "OP_JMP"
        /\ ps.jumps[j].operand = UINT16_MAX
        /\ Cardinality(PatchesOf(j)) = 1
        /\ \A k \in PatchesOf(j) :
              /\ ps.patches[k].pos = LoopOfJump(j).to
              /\ ps.patches[k].operand # UINT16_MAX
              /\ Forwards(ps.jumps[j].index, ps.patches[k].operand) = LoopOfJump(j).exit
        /\ LoopOfJump(j).end = LoopOfJump(j).exit

\* while a do local c = 1 if c then break end continue
\*     for (; a; b++) do break end break end
\* has been compiled: the inner break goes to the end of the for loop, which
\* has a step, and the outer ones to the end of the while loop
C22_BreakInBothLoops ==
    /\ pc = "compiling"
    /\ check(ps, "EOF")
    /\ source = Text(LoopOf(1, LoopItems[4] \o LoopOf(3, LoopItems[2]) \o LoopItems[2]))
    /\ ~ps.hadError
    /\ Cardinality(JumpsOf("break")) = 3
    /\ \E j \in JumpsOf("break") :
          /\ LoopOfJump(j).kind = "for"
          /\ Target(Script(ps), ps.jumps[j].index - 1) = LoopOfJump(j).exit
          /\ LoopOfJump(j).exit < Len(Script(ps).code)
    /\ \E j \in JumpsOf("break") :
          /\ LoopOfJump(j).kind = "while"
          /\ Target(Script(ps), ps.jumps[j].index - 1) = Len(Script(ps).code)


\* the for loop l has a step clause: a ';' does not stand right before its
\* ') do'
HasStep(l) == source[l.from - 3].type # "EOS"

\* what the code of f has at the offset the iterations of the loop l begin
\* at.  In the loops of LoopSources the condition is the global a and the
\* step is b++.
TopIs(f, l) ==
    CASE l.kind = "for in" -> f.code[l.top + 1] = "OP_NEXT"
      [] l.kind = "for" /\ HasStep(l) ->
            f.code[l.top + 1] = "OP_INCGLOBAL" /\ f.code[l.top - 2] = "OP_JMP"
      [] OTHER -> f.code[l.top + 1] = "OP_GETGLOBAL" /\ f.code[l.top + 4] = "OP_PEJMP"

\* the script is one of the loops of LoopSources, compiled to its end
LoopCompiled == pc = "compiling" /\ check(ps, "EOF") /\ source \in LoopSources

\* C23: every continue of a loop has written an OP_JMPBACK to the offset the
\* iterations of its innermost loop begin at, which is the condition of a
\* while loop, the OP_NEXT of a for in loop, the condition of a for loop
\* without a step and the step of a for loop with one.
C23_ContinueGoesToLoopTop ==
    \A j \in JumpsOf("continue") :
        /\ Around(j) # {}
        /\ ps.jumps[j].op = "OP_JMPBACK"
        /\ Backwards(ps.jumps[j].index, ps.jumps[j].operand) = LoopOfJump(j).top
        /\ (LoopCompiled /\ ps.jumps[j].level = 1) => TopIs(Script(ps), LoopOfJump(j))

\* for (; a; b++) do continue end has been compiled: the continue goes to
\* the step b++, which stands after the condition, its exit jump and the
\* jump into the body
C23_ContinueRunsStep ==
    /\ LoopCompiled
    /\ source = Text(LoopOf(3, LoopItems[3]))
    /\ ~ps.hadError
    /\ \E j \in JumpsOf("continue") :
          /\ LoopOfJump(j).kind = "for"
          /\ Target(Script(ps), ps.jumps[j].index - 1) = LoopOfJump(j).top
          /\ LoopOfJump(j).top = 9
          /\ Script(ps).code[1] = "OP_GETGLOBAL"
          /\ Script(ps).code[4] = "OP_PEJMP"
          /\ Script(ps).code[7] = "OP_JMP"
          /\ Script(ps).code[10] = "OP_INCGLOBAL"


\* the loops of the function of the break or continue j that had ended
\* before j was written, inside a loop that is still around j
EndedBefore(j) ==
    {m \in DOMAIN ps.loops :
        /\ ps.loops[m].level = ps.jumps[j].level
        /\ ps.loops[m].to < ps.jumps[j].pos
        /\ \E l \in Around(j) : /\ ps.loops[l].level = ps.jumps[j].level
                                /\ ps.loops[l].from < ps.loops[m].from}

\* C24: a loop statement leaves the loop state of its function (scope, start
\* offset, pending breaks) as it found it: a break or continue after an inner
\* loop belongs to the outer loop, a break of the inner loop is patched at
\* the end of the inner loop and nowhere else, and between the statements of
\* the script, or of a function body, the scope is -1.
C24_LoopStateRestored ==
    /\ \A l \in DOMAIN ps.loops : ps.loops[l].restored = ps.loops[l].cached
    /\ pc = "compiling" => CC(ps).loop = NoLoop
    /\ \A j \in DOMAIN ps.jumps : \A m \in EndedBefore(j) :
          /\ ps.loops[m].to < LoopOfJump(j).to
          /\ LoopOfJump(j).from < ps.loops[m].from
          /\ ps.jumps[j].form = "continue" =>
                /\ Backwards(ps.jumps[j].index, ps.jumps[j].operand) = LoopOfJump(j).top
                /\ LoopOfJump(j).top < ps.loops[m].top
          /\ ps.jumps[j].form = "break" =>
                \A k \in PatchesOf(j) : ps.patches[k].pos = LoopOfJump(j).to
    /\ \A j \in JumpsOf("break") : \A k \in DOMAIN ps.patches :
          (ps.patches[k].index = ps.jumps[j].index
              /\ ps.patches[k].level = ps.jumps[j].level
              /\ ps.patches[k].pos >= ps.jumps[j].pos
              /\ ps.patches[k].pos <= LoopOfJump(j).to)
          => ps.patches[k].pos = LoopOfJump(j).to

\* while a do local c = 1 if c then break end continue
\*     for (; a; b++) do break end continue end
\* has been compiled: the for loop found a pending break of the while loop
\* and left it in place, and the continue after it goes to the top of the
\* while loop
C24_BoundToOuterLoop ==
    /\ pc = "compiling"
    /\ check(ps, "EOF")
    /\ source = Text(LoopOf(1, LoopItems[4] \o LoopOf(3, LoopItems[2]) \o LoopItems[3]))
    /\ ~ps.hadError
    /\ CC(ps).loop = NoLoop
    /\ \E m \in DOMAIN ps.loops :
          /\ ps.loops[m].kind = "for"
          /\ Len(ps.loops[m].cached.breaks) = 1
          /\ ps.loops[m].cached.scope = 0
          /\ ps.loops[m].restored = ps.loops[m].cached
          /\ \E j \in JumpsOf("continue") :
                /\ m \in EndedBefore(j)
                /\ LoopOfJump(j).kind = "while"
                /\ Target(Script(ps), ps.jumps[j].index - 1) = 0


\* the source declares a proto whose body holds only methods
OnlyMethods ==
    \E i \in 1..3 : source = Text(<<"PROTO", "e">> \o ProtoItems[i] \o <<"END">>)

\* C25: compilation ends on every source: no loop of the parser runs an
\* iteration that neither consumes a token nor leaves the loop, a proto body
\* with a token other than function or end included.
C25_EveryLoopAdvances == ~ps.spin


\* C26: the infix handler that parsePrecedence calls for the current token
\* is never NULL, whatever the tokens: a '++' or '--' after a complete
\* operand included.
C26_InfixHandlerPresent == ps.noInfix = {}


\* C27: a local is refused, with the error "There's already a local in scope
\* with this name!", exactly when the scope it is declared in has a local of
\* that name already, at every depth: in the script, in a function body, in
\* a nested block; a name of an enclosing scope alone is shadowed.
C27_DuplicateLocalRefused == \A d \in ps.declared : d.refused <=> d.same


\* C28: no function being compiled has more than 256 locals, and no local
\* is written at an index of locals[] beyond 255, whichever path adds it:
\* a declaration, a parameter, the unnamed slot of a for in loop.
C28_LocalsArrayBounded ==
    /\ ps.written < LocalsCapacity
    /\ \A c \in DOMAIN ps.compilers : ps.compilers[c].localCount <= LocalsCapacity


\* string.split was called with two strings
SplitCalled ==
    /\ pc \in {"called", "spinning"}
    /\ applied.fn = "cosmoB_sSplit"
    /\ applied.nargs = 2
    /\ IS_STRING(applied.args[1])
    /\ IS_STRING(applied.args[2])

\* C29: string.split(s, sep) returns for every two strings, the empty
\* separator included, with one table on the stack whose keys are 0..n-1
\* for some n >= 1 and whose values are strings.
C29_SplitReturns ==
    SplitCalled =>
        /\ pc # "spinning"
        /\ applied.ret = 1
        /\ Len(stack) = 1
        /\ stack[1].kind = "table"
        /\ \E n \in 1..(MaxLen + 1) :
              /\ DOMAIN stack[1].val = 0..(n - 1)
              /\ \A k \in 0..(n - 1) : IS_STRING(stack[1].val[k])

\* C30: string.find(s, pattern, start) reads no byte outside s, and what it
\* returns is an offset in 0..length(s), not before start, at which pattern
\* stands in s.
C30_FindStaysInside ==
    (/\ pc = "called"
     /\ applied.fn = "cosmoB_sFind"
     /\ applied.nargs = 3
     /\ IS_STRING(applied.args[1])
     /\ IS_STRING(applied.args[2])
     /\ IS_NUMBER(applied.args[3]))
    => /\ ~applied.outside
       /\ ~state.crashed
       /\ applied.ret = 1 =>
             /\ Len(stack) = 1
             /\ IS_NUMBER(stack[1])
             /\ stack[1].val \in 0..Len(applied.args[1].val)
             /\ stack[1].val >= applied.args[3].val
             /\ Occurs(applied.args[1].val, stack[1].val, applied.args[2].val)

====
